---- MODULE Spec2Model ----
(***************************************************************************)
(* State-machine model of the QRES swarm-coordination scripts:             *)
(*   - the entropy-driven RegimeDetector (examples/python/05_...)          *)
(*   - the Sentinel smart-city simulation (zones, bridge, blackout)        *)
(*   - reputation-gated trimmed-mean aggregation                           *)
(*   - the filesystem inbox of SwarmClient                                 *)
(*   - the unified 200-round gauntlet and the multimodal gauntlet          *)
(*   - the collusion audit, the viral straggler and the unified validation *)
(*   - WorldStateManager, broadcast_world_state and the delta codec        *)
(*   - RegimeDetectorV21 and the handlers of the hive server               *)
(* Reputations, energies and entropies are fixed-point hundredths          *)
(* (0.8 is 80), so every comparison of the source is an integer one.       *)
(***************************************************************************)
EXTENDS Integers, Sequences, FiniteSets

VARIABLES
  \* examples/python/05_regime_transitions.py : RegimeDetector
  current_regime, entropy_history, storm_duration,
  prestorm_violations, storm_violations, calm_satisfactions,
  \* crates/qres_sim/evaluation/sentinel_simulation.py : main, Node, BridgeNetwork
  pc, round_idx, reputation, weights, energy, regime, nvram_storage,
  peer_evaluations, message_counts, max_error,
  pre_loss,      \* history: each node's weights at the moment of the NVRAM save
  last_message,  \* history: the last send_message call and its outcome
  \* evaluation/analysis/reputation_gated_sim.py : run_simulation, ReputationTracker
  scores, rg_round, updates, admitted, gated_out, agg_gated,
  round_scores,  \* history: get_scores() as passed to the aggregation of the round
  banned_seen,   \* history: nodes whose score was below BAN_THRESHOLD at a round start
  \* bindings/python/qres/swarm_cli.py : SwarmClient and the inbox directory
  inbox, received,
  delivered,     \* history: how many times each deposited frame has been returned
  \* evaluation/analysis/multimodal_gauntlet_v20.py : simulate_v20_multimodal_gauntlet
  mm_round, mm_energy, mm_is_cured,
  mm_reputation, \* the local "reputation" each node's predictions were weighted with
  mm_refused,    \* history: whether can_infect() was False when that weight was chosen
  \* evaluation/analysis/unified_gauntlet_v20.py : UnifiedGauntlet
  ug_pc, ug_round, ug_byzantine, ug_straggler, ug_weights, ug_nvram_backup,
  ug_energy_pool, ug_updates, brownout_count, convergence_round,
  lamarckian_recovery_errors,
  \* evaluation/analysis/class_c_collusion_sim.py : run_simulation, NodeState
  cc_round, audit_failures, detected, detection_round, audit_result,
  \* evaluation/analysis/phase1_viral_straggler.py : main, simulate_v20_viral, Node
  vs_pc, vs_round, vs_stragglers, infected_nodes, vs_energy, vs_brownout_count,
  vs_residual_error, vs_accuracy_delta, fast_updates, straggler_updates, vs_convergence_rounds,
  \* evaluation/analysis/unified_v20_validation.py : run_unified_validation, gossip_round, Node
  uv_pc, uv_round, uv_idx, uv_reputation, uv_error, viral_strain, cure_counter, is_attacker,
  is_bridge, uv_energy_pool, modality_errors, uv_current_regime, vote_buffer, uv_updates,
  uv_last,       \* history: the acting node, its peer and the values of its last gossip step
  \* evaluation/analysis/reputation_gated_sim.py : single calls of
  \* reputation_gated_trimmed_mean and of the ReputationTracker methods
  ag_call, tr_score, tr_calls,
  \* examples/python/04_byzantine_defense.py : single calls of reputation_weighted_aggregation
  iw_call,
  \* bindings/python/qres/persistent.py : WorldStateManager and its database file
  ws_states, ws_disk, ws_clock, ws_up, ws_saves, ws_last,
  \* bindings/python/qres/api.py : QRES_API.broadcast_world_state and the outbox directories
  quantum_outbox, tensor_outbox, bc_calls, bc_last,
  \* bindings/python/qres/swarm_cli.py : SwarmClient.delta_compress and delta_decompress
  dc_pc, dc_current, dc_previous, dc_sent, dc_restored,
  \* evaluation/analysis/regime_hysteresis_sim.py : RegimeDetectorV21
  entropy_buffer, v21_idx, v21_regime, transition_streak, pending_regime, v21_derivative, v21_previous_derivative,
  \* tools/dev/hive_server.py : the Flask handlers contribute and reset, one request per thread
  pending_contributions, hv_round, hv_dict, hv_threads, hv_included, hv_accepted

regimeVars == <<current_regime, entropy_history, storm_duration,
                prestorm_violations, storm_violations, calm_satisfactions>>

sentinelVars == <<pc, round_idx, reputation, weights, energy, regime, nvram_storage,
                  peer_evaluations, message_counts, max_error, pre_loss, last_message>>

gatedVars == <<scores, rg_round, updates, admitted, gated_out, agg_gated,
               round_scores, banned_seen>>

inboxVars == <<inbox, received, delivered>>

multimodalVars == <<mm_round, mm_energy, mm_is_cured, mm_reputation, mm_refused>>

gauntletVars == <<ug_pc, ug_round, ug_byzantine, ug_straggler, ug_weights,
                  ug_nvram_backup, ug_energy_pool, ug_updates, brownout_count,
                  convergence_round, lamarckian_recovery_errors>>

collusionVars == <<cc_round, audit_failures, detected, detection_round, audit_result>>

viralVars == <<vs_pc, vs_round, vs_stragglers, infected_nodes, vs_energy, vs_brownout_count,
  vs_residual_error, vs_accuracy_delta, fast_updates, straggler_updates, vs_convergence_rounds>>

validationVars == <<uv_pc, uv_round, uv_idx, uv_reputation, uv_error, viral_strain,
                    cure_counter, is_attacker, is_bridge, uv_energy_pool, modality_errors,
                    uv_current_regime, vote_buffer, uv_updates, uv_last>>

libraryVars == <<ag_call, tr_score, tr_calls>>

influenceVars == <<iw_call>>

worldStateVars == <<ws_states, ws_disk, ws_clock, ws_up, ws_saves, ws_last>>

broadcastVars == <<quantum_outbox, tensor_outbox, bc_calls, bc_last>>

deltaVars == <<dc_pc, dc_current, dc_previous, dc_sent, dc_restored>>

hysteresisVars == <<entropy_buffer, v21_idx, v21_regime, transition_streak, pending_regime, v21_derivative, v21_previous_derivative>>

hiveVars == <<pending_contributions, hv_round, hv_dict, hv_threads, hv_included, hv_accepted>>

vars == <<regimeVars, sentinelVars, gatedVars, inboxVars, multimodalVars, gauntletVars,
          collusionVars, viralVars, validationVars, libraryVars, influenceVars,
          worldStateVars, broadcastVars, deltaVars, hysteresisVars, hiveVars>>

\* what the steps of one program leave alone: the state of the other programs
nonRegimeVars == <<sentinelVars, gatedVars, inboxVars, multimodalVars, gauntletVars,
                   collusionVars, viralVars, validationVars, libraryVars,
                   influenceVars, worldStateVars, broadcastVars, deltaVars,
                   hysteresisVars, hiveVars>>
nonSentinelVars == <<regimeVars, gatedVars, inboxVars, multimodalVars, gauntletVars,
                     collusionVars, viralVars, validationVars, libraryVars,
                     influenceVars, worldStateVars, broadcastVars, deltaVars,
                     hysteresisVars, hiveVars>>
nonGatedVars == <<regimeVars, sentinelVars, inboxVars, multimodalVars, gauntletVars,
                  collusionVars, viralVars, validationVars, libraryVars, influenceVars,
                  worldStateVars, broadcastVars, deltaVars, hysteresisVars, hiveVars>>
nonInboxVars == <<regimeVars, sentinelVars, gatedVars, multimodalVars, gauntletVars,
                  collusionVars, viralVars, validationVars, libraryVars, influenceVars,
                  worldStateVars, broadcastVars, deltaVars, hysteresisVars, hiveVars>>
nonMultimodalVars == <<regimeVars, sentinelVars, gatedVars, inboxVars, gauntletVars,
                       collusionVars, viralVars, validationVars, libraryVars,
                       influenceVars, worldStateVars, broadcastVars, deltaVars,
                       hysteresisVars, hiveVars>>
nonGauntletVars == <<regimeVars, sentinelVars, gatedVars, inboxVars, multimodalVars,
                     collusionVars, viralVars, validationVars, libraryVars,
                     influenceVars, worldStateVars, broadcastVars, deltaVars,
                     hysteresisVars, hiveVars>>
nonCollusionVars == <<regimeVars, sentinelVars, gatedVars, inboxVars, multimodalVars,
                      gauntletVars, viralVars, validationVars, libraryVars,
                      influenceVars, worldStateVars, broadcastVars, deltaVars,
                      hysteresisVars, hiveVars>>
nonViralVars == <<regimeVars, sentinelVars, gatedVars, inboxVars, multimodalVars,
                  gauntletVars, collusionVars, validationVars, libraryVars,
                  influenceVars, worldStateVars, broadcastVars, deltaVars,
                  hysteresisVars, hiveVars>>
nonValidationVars == <<regimeVars, sentinelVars, gatedVars, inboxVars, multimodalVars,
                       gauntletVars, collusionVars, viralVars, libraryVars,
                       influenceVars, worldStateVars, broadcastVars, deltaVars,
                       hysteresisVars, hiveVars>>
nonLibraryVars == <<regimeVars, sentinelVars, gatedVars, inboxVars, multimodalVars,
                    gauntletVars, collusionVars, viralVars, validationVars,
                    influenceVars, worldStateVars, broadcastVars, deltaVars,
                    hysteresisVars, hiveVars>>
nonInfluenceVars == <<regimeVars, sentinelVars, gatedVars, inboxVars, multimodalVars,
                      gauntletVars, collusionVars, viralVars, validationVars,
                      libraryVars, worldStateVars, broadcastVars, deltaVars,
                      hysteresisVars, hiveVars>>
nonWorldStateVars == <<regimeVars, sentinelVars, gatedVars, inboxVars, multimodalVars,
                       gauntletVars, collusionVars, viralVars, validationVars,
                       libraryVars, influenceVars, broadcastVars, deltaVars,
                       hysteresisVars, hiveVars>>
nonBroadcastVars == <<regimeVars, sentinelVars, gatedVars, inboxVars, multimodalVars,
                      gauntletVars, collusionVars, viralVars, validationVars,
                      libraryVars, influenceVars, worldStateVars, deltaVars,
                      hysteresisVars, hiveVars>>
\* what a QRES_API call leaves alone: it writes the manager and the outboxes
nonApiVars == <<regimeVars, sentinelVars, gatedVars, inboxVars, multimodalVars,
                gauntletVars, collusionVars, viralVars, validationVars, libraryVars,
                influenceVars, deltaVars, hysteresisVars, hiveVars>>
nonDeltaVars == <<regimeVars, sentinelVars, gatedVars, inboxVars, multimodalVars,
                  gauntletVars, collusionVars, viralVars, validationVars, libraryVars,
                  influenceVars, worldStateVars, broadcastVars, hysteresisVars,
                  hiveVars>>
nonHysteresisVars == <<regimeVars, sentinelVars, gatedVars, inboxVars, multimodalVars,
                       gauntletVars, collusionVars, viralVars, validationVars,
                       libraryVars, influenceVars, worldStateVars, broadcastVars,
                       deltaVars, hiveVars>>
nonHiveVars == <<regimeVars, sentinelVars, gatedVars, inboxVars, multimodalVars,
                 gauntletVars, collusionVars, viralVars, validationVars, libraryVars,
                 influenceVars, worldStateVars, broadcastVars, deltaVars,
                 hysteresisVars>>

(***************************************************************************)
(* RegimeDetector of examples/python/05_regime_transitions.py              *)
(***************************************************************************)

\* self.θ1_derivative = 0.15
Theta1Derivative == 15
\* self.θ2_raw_entropy = 0.45
Theta2RawEntropy == 45
\* self.θ3_calm_recovery = 0.30
Theta3CalmRecovery == 30
\* self.T_min_storm = 5
TMinStorm == 5
\* "if self.prestorm_violations >= 2"
PreStormConfirmations == 2
\* "if self.storm_violations >= 3"
StormConfirmations == 3
\* "if self.calm_satisfactions >= 5"
CalmConfirmations == 5
\* "if len(self.entropy_history) > 5"
HistoryLen == 5

\* the entropy samples fed to update(), in hundredths
EntropyVals == {10, 35, 50, 60}
\* storm_duration is only ever incremented; updates stop at this many
MaxStormDuration == 12

RegimeInit ==
  /\ current_regime = "Calm"
  /\ entropy_history = <<0, 0, 0>>
  /\ storm_duration = 0
  /\ prestorm_violations = 0
  /\ storm_violations = 0
  /\ calm_satisfactions = 0

\* entropy_history.append(entropy); pop(0) when longer than 5
AppendHistory(h, e) ==
  LET a == Append(h, e)
  IN IF Len(a) > HistoryLen THEN Tail(a) ELSE a

\* calculate_derivative(): (h[-1] - h[-3]) / 2.0, kept doubled so it stays an integer
Derivative2(h) == IF Len(h) < 3 THEN 0 ELSE h[Len(h)] - h[Len(h) - 2]

\* RegimeDetector.update(entropy)
Update(entropy) ==
  LET h == AppendHistory(entropy_history, entropy)
      d2 == Derivative2(h)
  IN
  /\ current_regime = "Storm" => storm_duration < MaxStormDuration
  /\ UNCHANGED nonRegimeVars
  /\ entropy_history' = h
  /\ CASE current_regime = "Calm" ->
            /\ UNCHANGED <<storm_duration, storm_violations, calm_satisfactions>>
            /\ IF d2 > 2 * Theta1Derivative
               THEN IF prestorm_violations + 1 >= PreStormConfirmations
                    THEN /\ current_regime' = "PreStorm"
                         /\ prestorm_violations' = 0
                    ELSE /\ current_regime' = current_regime
                         /\ prestorm_violations' = prestorm_violations + 1
               ELSE /\ current_regime' = current_regime
                    /\ prestorm_violations' = 0
       [] current_regime = "PreStorm" ->
            /\ UNCHANGED <<prestorm_violations, calm_satisfactions>>
            /\ IF entropy > Theta2RawEntropy
               THEN IF storm_violations + 1 >= StormConfirmations
                    THEN /\ current_regime' = "Storm"
                         /\ storm_duration' = 0
                         /\ storm_violations' = 0
                    ELSE /\ current_regime' = current_regime
                         /\ storm_violations' = storm_violations + 1
                         /\ UNCHANGED storm_duration
               ELSE IF d2 < 0
                    THEN /\ current_regime' = "Calm"
                         /\ storm_violations' = 0
                         /\ UNCHANGED storm_duration
                    ELSE /\ current_regime' = current_regime
                         /\ storm_violations' = 0
                         /\ UNCHANGED storm_duration
       [] current_regime = "Storm" ->
            /\ UNCHANGED <<prestorm_violations, storm_violations>>
            /\ storm_duration' = storm_duration + 1
            /\ IF entropy < Theta3CalmRecovery /\ storm_duration + 1 > TMinStorm
               THEN IF calm_satisfactions + 1 >= CalmConfirmations
                    THEN /\ current_regime' = "Calm"
                         /\ calm_satisfactions' = 0
                    ELSE /\ current_regime' = current_regime
                         /\ calm_satisfactions' = calm_satisfactions + 1
               ELSE /\ current_regime' = current_regime
                    /\ calm_satisfactions' = 0

DetectorStep == \E entropy \in EntropyVals : Update(entropy)

NextRegime == DetectorStep

(***************************************************************************)
(* Sentinel simulation: crates/qres_sim/evaluation/sentinel_simulation.py  *)
(***************************************************************************)

\* ZONES = ["streetlights", "transit", "water", "energy"]
ZONES == <<"streetlights", "transit", "water", "energy">>
\* how many of the four zones the model instantiates
NumZones == 2
\* NODES_PER_ZONE (25 in the source)
NODES_PER_ZONE == 4
\* DIM (16 in the source)
DIM == 2
\* MAX_ROUNDS (150 in the source), BLACKOUT_ROUND (75), slander window (50..60)
MAX_ROUNDS == 6
BLACKOUT_ROUND == 3
SLANDER_START == 1
SLANDER_END == 2
\* seeds of the generator that draws the initial weights
NumSeeds == 3

BRIDGE_REPUTATION_THRESHOLD == 80
BRIDGE_RATE_CAP == 10
REGIME_QUORUM_MIN == 3
DEFAULT_REPUTATION == 50
BYZ_START_REPUTATION == 30
HIGH_REP_THRESHOLD == 80
ADVERSARIAL_ZONE == "streetlights"
\* ADVERSARIAL_RATIO = 0.4, in percent
ADVERSARIAL_RATIO == 40
\* "for node in eligible_nodes[:2]"
BRIDGE_SENDERS_PER_ZONE == 2
\* slander score 0.1 and honest score 0.8
SLANDER_SCORE == 10
HONEST_SCORE == 80
\* "for target in honest_targets[:3]" and "honest_targets[:5]"
SLANDER_TARGETS == 3
HONEST_TARGETS == 5
\* node.energy = 0.5 after the blackout
RECOVERY_ENERGY == 50
FULL_ENERGY == 100

\* Python's None: for an array, for a number, and for the record of a call
NoArray == <<>>
NoNumber == -1
NoCall == [source |-> -1, zone |-> "", rep |-> 0, ok |-> FALSE]

ZoneNames == {ZONES[i] : i \in 1..NumZones}
Nodes == 0..(NumZones * NODES_PER_ZONE - 1)
ZoneOf(n) == ZONES[(n \div NODES_PER_ZONE) + 1]
NodesOf(z) == {n \in Nodes : ZoneOf(n) = z}

\* n_byzantine = int(NODES_PER_ZONE * ADVERSARIAL_RATIO) in the adversarial zone
IsByzantine(n) ==
  /\ ZoneOf(n) = ADVERSARIAL_ZONE
  /\ (n % NODES_PER_ZONE) < (NODES_PER_ZONE * ADVERSARIAL_RATIO) \div 100

ZeroWeights == [d \in 1..DIM |-> 0]

\* RNG.normal(0, 0.1, DIM) under a seed: a fixed pseudo-random draw per node and dimension
DrawWeights(seed, n) == [d \in 1..DIM |-> ((seed * 7 + n * 3 + d * 5) % 9) - 4]

\* Node.save_to_nvram(): self.weights.copy()
SaveToNvram(w) == w

\* mutation: the restore keeps the wiped live weights
RestoreKeepsLive(live, stored) == live

\* Node.restore_from_nvram(stored): self.weights = stored.copy()
RestoreFromNvram(live, stored) == stored

\* Node.can_bridge()
CanBridge(n) == reputation[n] >= BRIDGE_REPUTATION_THRESHOLD

\* Zone.count_high_reputation()
CountHighReputation(z) ==
  Cardinality({n \in NodesOf(z) : reputation[n] > HIGH_REP_THRESHOLD})

\* the smallest element first: the order of a Python list built by increasing node id
RECURSIVE AscSeq(_)
AscSeq(S) ==
  IF S = {} THEN <<>>
  ELSE LET m == CHOOSE x \in S : \A y \in S : x <= y
       IN <<m>> \o AscSeq(S \ {m})

\* lst[:k]
Prefix(s, k) == SubSeq(s, 1, IF Len(s) < k THEN Len(s) ELSE k)

RECURSIVE InsertSorted(_, _)
InsertSorted(s, x) ==
  IF s = <<>> THEN <<x>>
  ELSE IF x <= Head(s) THEN <<x>> \o s
       ELSE <<Head(s)>> \o InsertSorted(Tail(s), x)

RECURSIVE SortAsc(_)
SortAsc(s) == IF s = <<>> THEN <<>> ELSE InsertSorted(SortAsc(Tail(s)), Head(s))

\* np.median of a non-empty list
Median(s) ==
  LET t == SortAsc(s)
      k == Len(t)
  IN IF k % 2 = 1 THEN t[(k + 1) \div 2]
     ELSE (t[k \div 2] + t[(k \div 2) + 1]) \div 2

\* ReputationTracker.compute_median_reputation(node_id)
ComputeMedianReputation(evals, n) ==
  IF evals[n] = <<>> THEN DEFAULT_REPUTATION ELSE Median(evals[n])

\* BridgeNetwork.can_send_message(source_zone, source_node)
CanSendMessage(z, n) ==
  /\ CanBridge(n)
  /\ message_counts[z] < BRIDGE_RATE_CAP

\* mutation: the cap test is off by one
SendAcceptedAtCap(counts, z) == counts[z] <= BRIDGE_RATE_CAP

\* BridgeNetwork.send_message(source_zone, target_zone, message): the return value
SendAccepted(counts, z) == counts[z] < BRIDGE_RATE_CAP

\* BridgeNetwork.send_message: the counts after the call
SendCounts(counts, z) ==
  IF SendAccepted(counts, z) THEN [counts EXCEPT ![z] = @ + 1] ELSE counts

\* the record kept of one send_message call
CallRecord(counts, c) ==
  [source |-> c.node, zone |-> c.zone, rep |-> reputation[c.node],
   ok |-> SendAccepted(counts, c.zone)]

SentinelInit ==
  /\ pc = "create"
  /\ round_idx = 0
  /\ reputation = [n \in Nodes |->
       IF IsByzantine(n) THEN BYZ_START_REPUTATION ELSE DEFAULT_REPUTATION]
  /\ weights = [n \in Nodes |-> ZeroWeights]
  /\ energy = [n \in Nodes |-> FULL_ENERGY]
  /\ regime = [n \in Nodes |-> "Calm"]
  /\ nvram_storage = [n \in Nodes |-> NoArray]
  /\ peer_evaluations = [n \in Nodes |-> <<>>]
  /\ message_counts = [z \in ZoneNames |-> 0]
  /\ max_error = NoNumber
  /\ pre_loss = [n \in Nodes |-> NoArray]
  /\ last_message = NoCall

\* main, lines 216-249: the nodes draw their initial weights
CreateNodes ==
  /\ pc = "create"
  /\ UNCHANGED nonSentinelVars
  /\ \E seed \in 1..NumSeeds :
       weights' = [n \in Nodes |-> DrawWeights(seed, n)]
  /\ pc' = "start"
  /\ UNCHANGED <<round_idx, reputation, energy, regime, nvram_storage,
                 peer_evaluations, message_counts, max_error, pre_loss, last_message>>

\* main, line 259: bridge.reset_round()
StartRound ==
  /\ pc = "start"
  /\ UNCHANGED nonSentinelVars
  /\ message_counts' = [z \in ZoneNames |-> 0]
  /\ pc' = "power"
  /\ UNCHANGED <<round_idx, reputation, weights, energy, regime, nvram_storage,
                 peer_evaluations, max_error, pre_loss, last_message>>

\* main, lines 262-273: total power failure
Blackout ==
  /\ pc = "power"
  /\ UNCHANGED nonSentinelVars
  /\ round_idx = BLACKOUT_ROUND
  /\ nvram_storage' = [n \in Nodes |-> SaveToNvram(weights[n])]
  /\ pre_loss' = weights
  /\ weights' = [n \in Nodes |-> ZeroWeights]
  /\ energy' = [n \in Nodes |-> 0]
  /\ pc' = "regime"
  /\ UNCHANGED <<round_idx, reputation, regime, peer_evaluations, message_counts,
                 max_error, last_message>>

AbsDiff(a, b) == IF a >= b THEN a - b ELSE b - a

\* np.max(np.abs(a - b)) of two arrays
MaxAbsError(a, b) ==
  LET errs == {AbsDiff(a[d], b[d]) : d \in 1..DIM}
  IN CHOOSE e \in errs : \A x \in errs : x <= e

\* the largest error over all nodes: max_error of main
MaxRecoveryError(stored, actual) ==
  LET errs == {MaxAbsError(stored[n], actual[n]) : n \in Nodes}
  IN CHOOSE e \in errs : \A x \in errs : x <= e

\* main, lines 276-295: power restored
Recovery ==
  /\ pc = "power"
  /\ UNCHANGED nonSentinelVars
  /\ round_idx = BLACKOUT_ROUND + 1
  /\ weights' = [n \in Nodes |-> RestoreFromNvram(weights[n], nvram_storage[n])]
  /\ energy' = [n \in Nodes |-> RECOVERY_ENERGY]
  /\ max_error' = MaxRecoveryError(nvram_storage, weights')
  /\ pc' = "regime"
  /\ UNCHANGED <<round_idx, reputation, regime, nvram_storage, peer_evaluations,
                 message_counts, pre_loss, last_message>>

PowerNominal ==
  /\ pc = "power"
  /\ UNCHANGED nonSentinelVars
  /\ round_idx # BLACKOUT_ROUND
  /\ round_idx # BLACKOUT_ROUND + 1
  /\ pc' = "regime"
  /\ UNCHANGED <<round_idx, reputation, weights, energy, regime, nvram_storage,
                 peer_evaluations, message_counts, max_error, pre_loss, last_message>>

\* RegimeDetector.should_trigger_storm() for a zone whose spike detection returned spike
ShouldTriggerStorm(z, spike) ==
  IF ~spike THEN FALSE ELSE CountHighReputation(z) >= REGIME_QUORUM_MIN

\* main, lines 298-301: RegimeDetector.update_regime() of every zone
RegimeDetection ==
  /\ pc = "regime"
  /\ UNCHANGED nonSentinelVars
  /\ \E spike \in [ZoneNames -> BOOLEAN] :
       regime' = [n \in Nodes |->
         IF ShouldTriggerStorm(ZoneOf(n), spike[ZoneOf(n)]) THEN "Storm" ELSE "Calm"]
  /\ pc' = "slander"
  /\ UNCHANGED <<round_idx, reputation, weights, energy, nvram_storage,
                 peer_evaluations, message_counts, max_error, pre_loss, last_message>>

ByzNodes == AscSeq({n \in NodesOf(ADVERSARIAL_ZONE) : IsByzantine(n)})
HonestTargets == AscSeq({n \in NodesOf(ADVERSARIAL_ZONE) : ~IsByzantine(n)})

\* how many of s are different from n
CountOthers(s, n) == Cardinality({i \in 1..Len(s) : s[i] # n})

\* i copies of x
Repeat(x, i) == [k \in 1..i |-> x]

InPrefix(s, k, n) == \E i \in 1..Len(Prefix(s, k)) : s[i] = n

\* main, lines 304-321: the coordinated slander campaign
SlanderCampaign ==
  /\ pc = "slander"
  /\ UNCHANGED nonSentinelVars
  /\ SLANDER_START <= round_idx /\ round_idx < SLANDER_END
  /\ peer_evaluations' = [n \in Nodes |->
       peer_evaluations[n]
         \o (IF InPrefix(HonestTargets, SLANDER_TARGETS, n)
             THEN Repeat(SLANDER_SCORE, Len(ByzNodes)) ELSE <<>>)
         \o (IF InPrefix(HonestTargets, HONEST_TARGETS, n)
             THEN Repeat(HONEST_SCORE, CountOthers(HonestTargets, n)) ELSE <<>>)]
  /\ pc' = "reputation"
  /\ UNCHANGED <<round_idx, reputation, weights, energy, regime, nvram_storage,
                 message_counts, max_error, pre_loss, last_message>>

NoSlander ==
  /\ pc = "slander"
  /\ UNCHANGED nonSentinelVars
  /\ ~(SLANDER_START <= round_idx /\ round_idx < SLANDER_END)
  /\ pc' = "reputation"
  /\ UNCHANGED <<round_idx, reputation, weights, energy, regime, nvram_storage,
                 peer_evaluations, message_counts, max_error, pre_loss, last_message>>

\* main, line 324: rep_tracker.update_reputations(all_nodes)
ReputationUpdate ==
  /\ pc = "reputation"
  /\ UNCHANGED nonSentinelVars
  /\ reputation' = [n \in Nodes |-> ComputeMedianReputation(peer_evaluations, n)]
  /\ pc' = "bridge"
  /\ UNCHANGED <<round_idx, weights, energy, regime, nvram_storage,
                 peer_evaluations, message_counts, max_error, pre_loss, last_message>>

\* the send_message calls of main, lines 328-335, in program order
RECURSIVE Flatten(_)
Flatten(ss) == IF ss = <<>> THEN <<>> ELSE Head(ss) \o Flatten(Tail(ss))

BridgeCalls ==
  Flatten([i \in 1..NumZones |->
    LET z == ZONES[i]
        senders == Prefix(AscSeq({n \in NodesOf(z) : CanBridge(n)}), BRIDGE_SENDERS_PER_ZONE)
    IN Flatten([k \in 1..Len(senders) |->
         Flatten([j \in 1..NumZones |->
           IF j = i THEN <<>>
           ELSE <<[zone |-> z, target |-> ZONES[j], node |-> senders[k]]>>])])])

RECURSIVE CountsAfter(_, _)
CountsAfter(counts, calls) ==
  IF calls = <<>> THEN counts
  ELSE CountsAfter(SendCounts(counts, Head(calls).zone), Tail(calls))

RECURSIVE LastCall(_, _, _)
LastCall(counts, calls, last) ==
  IF calls = <<>> THEN last
  ELSE LastCall(SendCounts(counts, Head(calls).zone), Tail(calls),
                CallRecord(counts, Head(calls)))

\* main, lines 326-335, and the end of the loop body
BridgeCommunication ==
  /\ pc = "bridge"
  /\ UNCHANGED nonSentinelVars
  /\ message_counts' = CountsAfter(message_counts, BridgeCalls)
  /\ last_message' = LastCall(message_counts, BridgeCalls, last_message)
  /\ round_idx' = round_idx + 1
  /\ pc' = IF round_idx + 1 < MAX_ROUNDS THEN "start" ELSE "done"
  /\ UNCHANGED <<reputation, weights, energy, regime, nvram_storage,
                 peer_evaluations, max_error, pre_loss>>

NextSentinel ==
  \/ CreateNodes
  \/ StartRound
  \/ Blackout
  \/ Recovery
  \/ PowerNominal
  \/ RegimeDetection
  \/ SlanderCampaign
  \/ NoSlander
  \/ ReputationUpdate
  \/ BridgeCommunication

(***************************************************************************)
(* The BridgeNetwork driven through its public methods by any caller,      *)
(* next to the calls main() itself makes                                   *)
(***************************************************************************)

\* bridge.send_message(source_zone, target_zone, message) with message["source"] = n
BridgeSendMessage ==
  /\ pc = "bridge"
  /\ UNCHANGED nonSentinelVars
  /\ \E n \in Nodes :
       \* any target zone but the sender's own: send_message never reads it
       LET c == [zone |-> ZoneOf(n), node |-> n]
       IN /\ ZoneNames \ {c.zone} # {}
          /\ message_counts' = SendCounts(message_counts, c.zone)
          /\ last_message' = CallRecord(message_counts, c)
  /\ UNCHANGED <<pc, round_idx, reputation, weights, energy, regime, nvram_storage,
                 peer_evaluations, max_error, pre_loss>>

\* bridge.reset_round()
BridgeResetRound ==
  /\ pc = "bridge"
  /\ UNCHANGED nonSentinelVars
  /\ message_counts' = [z \in ZoneNames |-> 0]
  /\ UNCHANGED <<pc, round_idx, reputation, weights, energy, regime, nvram_storage,
                 peer_evaluations, max_error, pre_loss, last_message>>

NextBridge ==
  \/ CreateNodes
  \/ StartRound
  \/ Blackout
  \/ Recovery
  \/ PowerNominal
  \/ RegimeDetection
  \/ SlanderCampaign
  \/ NoSlander
  \/ ReputationUpdate
  \/ BridgeCommunication
  \/ BridgeSendMessage
  \/ BridgeResetRound

(***************************************************************************)
(* Reputation-gated trimmed mean: evaluation/analysis/reputation_gated_sim *)
(* Updates have one coordinate, in tenths; scores are in hundredths.       *)
(* Array positions are 1..n (position i is index i-1 of the source).       *)
(***************************************************************************)

\* N_NODES (20 in the source) and ROUNDS (100)
RG_N_NODES == 4
RG_ROUNDS == 3
\* BYZ_RATIO = 0.25, in percent
RG_BYZ_RATIO == 25
N_BYZ == (RG_N_NODES * RG_BYZ_RATIO) \div 100
N_HONEST == RG_N_NODES - N_BYZ

DEFAULT_TRUST == 50
BAN_THRESHOLD == 20
SOFT_GATE_THRESHOLD == 40
TRIM_PENALTY == -10
HONEST_REWARD == 2
\* rep_tracker.penalize(gated_out, amount=0.01)
GATED_OUT_DECAY == 1
\* drift_threshold = 0.3, in tenths
DRIFT_THRESHOLD == 3
\* BYZ_OFFSET = 0.5, in tenths
BYZ_OFFSET == 5
\* "if len(admitted_indices) < 4" and "if len(admitted_indices) < 3"
MIN_SOFT_ADMITTED == 4
MIN_ADMITTED == 3
MAX_SCORE == 100

\* the scores a tracker holds when the aggregation is called
ScoreVals == {10, 40, 50}
\* what an honest node's noise, rounded to tenths, adds to TRUE_WEIGHTS = 0
HonestVals == {0, 1}

Positions(n) == 1..n

\* generate_updates(): one row per node, honest rows first
UpdateChoices ==
  {u \in [Positions(RG_N_NODES) -> HonestVals \cup {BYZ_OFFSET}] :
     \A i \in Positions(RG_N_NODES) :
       IF i <= N_HONEST THEN u[i] \in HonestVals ELSE u[i] = BYZ_OFFSET}

\* np.where(reputation_scores >= t)[0].tolist()
WhereAtLeast(reps, t) == AscSeq({i \in Positions(Len(reps)) : reps[i] >= t})

\* the admitted_indices of reputation_gated_trimmed_mean, lines 104-117
AdmittedIndices(reps) ==
  LET soft == WhereAtLeast(reps, SOFT_GATE_THRESHOLD)
      relaxed == IF Len(soft) < MIN_SOFT_ADMITTED
                 THEN WhereAtLeast(reps, BAN_THRESHOLD) ELSE soft
  IN IF Len(relaxed) < MIN_ADMITTED THEN AscSeq(Positions(Len(reps))) ELSE relaxed

SeqRange(s) == {s[i] : i \in 1..Len(s)}

\* the gated_out of reputation_gated_trimmed_mean: whoever the last gate applied left out
GatedOutIndices(reps) ==
  AscSeq(Positions(Len(reps)) \ SeqRange(AdmittedIndices(reps)))

\* np.argsort(vals): positions by increasing value, equal values by increasing position
RECURSIVE ArgSortFrom(_, _)
ArgSortFrom(vals, S) ==
  IF S = {} THEN <<>>
  ELSE LET m == CHOOSE i \in S :
                  \A j \in S : vals[i] < vals[j] \/ (vals[i] = vals[j] /\ i <= j)
       IN <<m>> \o ArgSortFrom(vals, S \ {m})

ArgSort(vals) == ArgSortFrom(vals, Positions(Len(vals)))

\* f used as it is configured, whatever the number admitted
EffectiveFConfigured(f, n_admitted) == f

\* f_eff = min(f, (n_admitted - 1) // 2), 0 when below 1
EffectiveF(f, n_admitted) ==
  LET half == (n_admitted - 1) \div 2
      m == IF f < half THEN f ELSE half
  IN IF m < 1 THEN 0 ELSE m

\* kept: order[f_eff : n_admitted - f_eff] when trimming applies, else order
Kept(order, f_eff) ==
  IF f_eff > 0 /\ 2 * f_eff < Len(order)
  THEN SubSeq(order, f_eff + 1, Len(order) - f_eff)
  ELSE order

RECURSIVE SumSeq(_)
SumSeq(s) == IF s = <<>> THEN 0 ELSE Head(s) + SumSeq(Tail(s))

\* the weighted average by reputation, lines 146-153, as the fraction num / den
WeightedAverage(kept_vals, kept_reps) ==
  LET total_w == SumSeq(kept_reps)
  IN IF total_w > 0
     THEN [num |-> SumSeq([k \in 1..Len(kept_vals) |-> kept_vals[k] * kept_reps[k]]),
           den |-> total_w]
     ELSE [num |-> SumSeq(kept_vals), den |-> Len(kept_vals)]

\* reputation_gated_trimmed_mean(updates, f, reputation_scores)
ReputationGatedTrimmedMean(upd, f, reps) ==
  LET admitted_indices == AdmittedIndices(reps)
      n_admitted == Len(admitted_indices)
      admitted_updates == [k \in 1..n_admitted |-> upd[admitted_indices[k]]]
      admitted_reps == [k \in 1..n_admitted |-> reps[admitted_indices[k]]]
      kept == Kept(ArgSort(admitted_updates), EffectiveF(f, n_admitted))
  IN [result |-> WeightedAverage([k \in 1..Len(kept) |-> admitted_updates[kept[k]]],
                                 [k \in 1..Len(kept) |-> admitted_reps[kept[k]]]),
      admitted |-> admitted_indices,
      gated_out |-> GatedOutIndices(reps)]

\* node_drift > drift_threshold, for one coordinate: |u - num/den| > 0.3
NodeDriftExceeds(u, agg) ==
  AbsDiff(u * agg.den, agg.num) > DRIFT_THRESHOLD * agg.den

Min2(a, b) == IF a < b THEN a ELSE b
Max2(a, b) == IF a > b THEN a ELSE b

\* ReputationTracker.reward, penalize_trim_margin and penalize, for one node
Reward(s, amount) == Min2(s + amount, MAX_SCORE)
PenalizeTrimMargin(s) == Max2(s + TRIM_PENALTY, 0)
Penalize(s, amount) == Max2(s - amount, 0)

\* ReputationTracker.__init__ and the state before the first round
GatedInit ==
  /\ scores = [i \in Positions(RG_N_NODES) |-> DEFAULT_TRUST]
  /\ rg_round = 0
  /\ updates = [i \in Positions(RG_N_NODES) |-> 0]
  /\ admitted = <<>>
  /\ gated_out = <<>>
  /\ agg_gated = [num |-> 0, den |-> 1]
  /\ round_scores = [i \in Positions(RG_N_NODES) |-> DEFAULT_TRUST]
  /\ banned_seen = {}

\* the same, for a tracker that holds any scores of ScoreVals
GatedInitAnyScores ==
  /\ scores \in [Positions(RG_N_NODES) -> ScoreVals]
  /\ rg_round = 0
  /\ updates = [i \in Positions(RG_N_NODES) |-> 0]
  /\ admitted = <<>>
  /\ gated_out = <<>>
  /\ agg_gated = [num |-> 0, den |-> 1]
  /\ round_scores = scores
  /\ banned_seen = {}

\* one iteration of the loop of run_simulation, lines 226-256 (strategy B)
GatedRound ==
  /\ rg_round < RG_ROUNDS
  /\ UNCHANGED nonGatedVars
  /\ \E upd \in UpdateChoices :
       LET g == ReputationGatedTrimmedMean(upd, N_BYZ, scores)
       IN /\ updates' = upd
          /\ admitted' = g.admitted
          /\ gated_out' = g.gated_out
          /\ agg_gated' = g.result
          /\ scores' = [i \in Positions(RG_N_NODES) |->
               IF i \in SeqRange(g.admitted)
               THEN IF NodeDriftExceeds(upd[i], g.result)
                    THEN PenalizeTrimMargin(scores[i])
                    ELSE Reward(scores[i], HONEST_REWARD)
               ELSE Penalize(scores[i], GATED_OUT_DECAY)]
  /\ round_scores' = scores
  /\ banned_seen' = banned_seen \cup
       {i \in Positions(RG_N_NODES) : scores[i] < BAN_THRESHOLD}
  /\ rg_round' = rg_round + 1

NextGated == GatedRound

(***************************************************************************)
(* SwarmClient.receive_epiphanies and the inbox directory:                 *)
(* bindings/python/qres/swarm_cli.py                                       *)
(* A file of the inbox is [id, prefixes, suffix, kind]: its name is        *)
(* "processed_" repeated prefixes times, then "frame<id>", then the suffix.*)
(***************************************************************************)

\* how many frames the daemon deposits, and how long a name may grow
MaxFrames == 3
MaxPrefixes == 3

FrameIds == 1..MaxFrames

\* the contents the daemon may write into a file
\*   "epiphany": header, struct and payload as broadcast_epiphany writes them
\*   "badheader": the data does not start with QRES_EPIPHANY_V1
\*   "truncated": the header is there but fewer than 14 bytes follow it
\*   "shortid": header and the 14 bytes of "<QfH" are there, but fewer bytes than the
\*              declared node_id_len follow them (the slices of lines 88 and 91 do not
\*              raise: node_id is the shorter prefix and weights is b"")
FrameKinds == {"epiphany", "badheader", "truncated", "shortid"}

\* the file-name suffixes the daemon may use
Suffixes == {".bin", ".tmp"}

\* Path(INBOX_PATH).glob("*.bin")
GlobBin(dir) == {f \in dir : f.suffix = ".bin"}

\* data.startswith(b"QRES_EPIPHANY_V1")
StartsWithHeader(f) == f.kind # "badheader"

\* struct.unpack_from("<QfH", data, 16) raises struct.error on a short buffer
UnpackRaises(f) == f.kind = "truncated"

\* the entries of one poll that reach received.append
Parsed(dir) == {f \in GlobBin(dir) : StartsWithHeader(f) /\ ~UnpackRaises(f)}

\* entry.rename(f"{INBOX_PATH}/processed_{entry.name}")
Rename(f) == [f EXCEPT !.prefixes = @ + 1]

InboxInit ==
  /\ inbox = {}
  /\ received = {}
  /\ delivered = [i \in FrameIds |-> 0]

\* the Rust daemon deposits a frame under a name not used before
DaemonDeposit ==
  /\ UNCHANGED nonInboxVars
  /\ \E i \in FrameIds : \E k \in FrameKinds : \E sfx \in Suffixes :
       /\ \A f \in inbox : f.id # i
       /\ inbox' = inbox \cup {[id |-> i, prefixes |-> 0, suffix |-> sfx, kind |-> k]}
  /\ UNCHANGED <<received, delivered>>

\* SwarmClient.receive_epiphanies(): one poll of the inbox
ReceiveEpiphanies ==
  /\ UNCHANGED nonInboxVars
  /\ \A f \in inbox : f.prefixes < MaxPrefixes
  /\ received' = {f.id : f \in Parsed(inbox)}
  /\ inbox' = (inbox \ Parsed(inbox)) \cup {Rename(f) : f \in Parsed(inbox)}
  /\ delivered' = [i \in FrameIds |->
       IF i \in {f.id : f \in Parsed(inbox)} THEN delivered[i] + 1 ELSE delivered[i]]

NextInbox ==
  \/ DaemonDeposit
  \/ ReceiveEpiphanies

(***************************************************************************)
(* Multimodal gauntlet: evaluation/analysis/multimodal_gauntlet_v20.py     *)
(* Energy is in joules. The sensor observations are abstracted to the      *)
(* outcome of check_cure_threshold().                                      *)
(***************************************************************************)

\* N_NODES and ROUNDS (150 in the source)
MM_N_NODES == 3
MM_ROUNDS == 34

\* ENERGY_GUARD = 0.15, in percent
ENERGY_GUARD == 15
BATTERY_CAPACITY_J == 23760
\* ACTIVE_POWER_W = 0.180 and MULTIMODAL_OVERHEAD_W = 0.020, in milliwatts
ACTIVE_POWER_MW == 180
MULTIMODAL_OVERHEAD_MW == 20
ROUND_DURATION_S == 3600
\* "reputation = 0.3 if node.energy < BATTERY_CAPACITY_J * 0.1 else 1.0"
LOW_ENERGY_REPUTATION == 30
FULL_REPUTATION == 100
\* the divisor of "BATTERY_CAPACITY_J * 0.1"
LOW_ENERGY_DIVISOR == 10

MMNodes == 1..MM_N_NODES

\* MultimodalNode.can_infect(): energy / BATTERY_CAPACITY_J > ENERGY_GUARD
MMCanInfect(e) == e * 100 > ENERGY_GUARD * BATTERY_CAPACITY_J

\* MultimodalNode.drain_energy(multimodal_active=True)
DrainEnergy(e) ==
  Max2(0, e - ((ACTIVE_POWER_MW + MULTIMODAL_OVERHEAD_MW) * ROUND_DURATION_S) \div 1000)

\* the "energy-aware reputation" of line 256
EnergyAwareReputation(e) ==
  IF e * LOW_ENERGY_DIVISOR < BATTERY_CAPACITY_J
  THEN LOW_ENERGY_REPUTATION ELSE FULL_REPUTATION

MultimodalInit ==
  /\ mm_round = 0
  /\ mm_energy = [n \in MMNodes |-> BATTERY_CAPACITY_J]
  /\ mm_is_cured = [n \in MMNodes |-> FALSE]
  /\ mm_reputation = [n \in MMNodes |-> FULL_REPUTATION]
  /\ mm_refused = [n \in MMNodes |-> FALSE]

\* one round of simulate_v20_multimodal_gauntlet: the loop over the nodes, lines 249-265
MultimodalRound ==
  /\ mm_round < MM_ROUNDS
  /\ UNCHANGED nonMultimodalVars
  /\ \E cure \in [MMNodes -> BOOLEAN] :
       mm_is_cured' = [n \in MMNodes |-> mm_is_cured[n] \/ cure[n]]
  /\ mm_reputation' = [n \in MMNodes |-> EnergyAwareReputation(mm_energy[n])]
  /\ mm_refused' = [n \in MMNodes |-> ~MMCanInfect(mm_energy[n])]
  /\ mm_energy' = [n \in MMNodes |-> DrainEnergy(mm_energy[n])]
  /\ mm_round' = mm_round + 1

NextMultimodal == MultimodalRound

(***************************************************************************)
(* Unified gauntlet: evaluation/analysis/unified_gauntlet_v20.py           *)
(* energy_pool is in hundredths. The drift of the consensus is abstracted  *)
(* to whether it is below CONVERGENCE_TARGET in a round.                   *)
(***************************************************************************)

\* N_NODES (100 in the source), MAX_ROUNDS (200), BLACKOUT_ROUND (150)
UG_N_NODES == 4
UG_MAX_ROUNDS == 26
UG_BLACKOUT_ROUND == 22

\* BYZANTINE_RATIO = 0.35 and STRAGGLER_RATIO = 0.25, in percent
BYZANTINE_RATIO == 35
STRAGGLER_RATIO == 25
\* energy_pool: float = 0.8
INITIAL_ENERGY_POOL == 80
ENERGY_POOL_MIN == 15
ENCLAVE_GATE_MIN == 10
\* "node.energy_pool = 0.5  # Partial solar charge"
UG_RECOVERY_ENERGY == 50
\* "max(0.0, node.energy_pool - 0.02)" and "min(1.0, node.energy_pool + 0.03)"
ROUND_CONSUMPTION == 2
SOLAR_HARVEST == 3
MAX_ENERGY_POOL == 100
\* "round_idx > self.convergence_round + 10"
CONVERGENCE_GRACE == 10

UGNodes == 0..(UG_N_NODES - 1)

\* Node.cure_threshold_met(): with accuracy_delta = 1/(1 + 0.9 r) - 1/(1 + r), which is
\* below 0.027 for every residual r >= 0, "accuracy_delta > 0.05" is never true
CureThresholdMet(n) == FALSE

\* Node.can_infect()
UGCanInfect(n, e) == CureThresholdMet(n) /\ e >= ENERGY_POOL_MIN

\* Node.can_report_reputation()
CanReportReputation(e) == e >= ENCLAVE_GATE_MIN

\* the same without the cap of the harvest
ConsumeAndHarvestUncapped(e) == Max2(0, e - ROUND_CONSUMPTION) + SOLAR_HARVEST

\* energy consumption, then solar harvest
ConsumeAndHarvest(e) == Min2(MAX_ENERGY_POOL, Max2(0, e - ROUND_CONSUMPTION) + SOLAR_HARVEST)

GauntletInit ==
  /\ ug_pc = "init"
  /\ ug_round = 0
  /\ ug_byzantine = {}
  /\ ug_straggler = {}
  /\ ug_weights = [n \in UGNodes |-> ZeroWeights]
  /\ ug_nvram_backup = [n \in UGNodes |-> NoArray]
  /\ ug_energy_pool = [n \in UGNodes |-> INITIAL_ENERGY_POOL]
  /\ ug_updates = {}
  /\ brownout_count = 0
  /\ convergence_round = NoNumber
  /\ lamarckian_recovery_errors = {}

\* UnifiedGauntlet._init_nodes(): RNG.choice draws the Byzantine and straggler indices
InitNodes ==
  /\ ug_pc = "init"
  /\ UNCHANGED nonGauntletVars
  /\ \E b \in SUBSET UGNodes : \E s \in SUBSET UGNodes : \E seed \in 1..NumSeeds :
       /\ Cardinality(b) = (UG_N_NODES * BYZANTINE_RATIO) \div 100
       /\ Cardinality(s) = (UG_N_NODES * STRAGGLER_RATIO) \div 100
       /\ ug_byzantine' = b
       /\ ug_straggler' = s
       /\ ug_weights' = [n \in UGNodes |-> DrawWeights(seed, n)]
  /\ ug_pc' = "run"
  /\ UNCHANGED <<ug_round, ug_nvram_backup, ug_energy_pool, ug_updates, brownout_count,
                 convergence_round, lamarckian_recovery_errors>>

\* the weights, backups and energy pools after the blackout and recovery blocks
\* of _run_round, lines 183-200
AfterPowerEvents(r) ==
  IF r = UG_BLACKOUT_ROUND
  THEN [weights |-> [n \in UGNodes |-> ZeroWeights],
        backup |-> [n \in UGNodes |-> SaveToNvram(ug_weights[n])],
        energy |-> [n \in UGNodes |-> 0]]
  ELSE IF r = UG_BLACKOUT_ROUND + 1
  THEN [weights |-> [n \in UGNodes |->
                      IF ug_nvram_backup[n] # NoArray
                      THEN RestoreFromNvram(ug_weights[n], ug_nvram_backup[n])
                      ELSE ug_weights[n]],
        backup |-> ug_nvram_backup,
        energy |-> [n \in UGNodes |-> UG_RECOVERY_ENERGY]]
  ELSE [weights |-> ug_weights, backup |-> ug_nvram_backup, energy |-> ug_energy_pool]

\* the errors appended to lamarckian_recovery_errors in the recovery round
RecoveryErrors(r, p) ==
  IF r = UG_BLACKOUT_ROUND + 1
  THEN {MaxAbsError(p.weights[n], p.backup[n]) : n \in {m \in UGNodes : p.backup[m] # NoArray}}
  ELSE {}

\* one iteration of the loop of run(): _run_round(round_idx), then the early-termination test
RunRound ==
  /\ ug_pc = "run"
  /\ UNCHANGED nonGauntletVars
  /\ LET p == AfterPowerEvents(ug_round)
         reporting == {n \in UGNodes : CanReportReputation(p.energy[n])}
     IN /\ ug_weights' = p.weights
        /\ ug_nvram_backup' = p.backup
        /\ lamarckian_recovery_errors' =
             lamarckian_recovery_errors \cup RecoveryErrors(ug_round, p)
        /\ brownout_count' = brownout_count + Cardinality(UGNodes \ reporting)
        /\ ug_energy_pool' = [n \in UGNodes |->
             IF n \in reporting THEN ConsumeAndHarvest(p.energy[n]) ELSE p.energy[n]]
        /\ \E late \in SUBSET {n \in reporting \cap ug_straggler : ~UGCanInfect(n, p.energy[n])} :
             ug_updates' = {n \in reporting : UGCanInfect(n, p.energy[n]) \/ n \notin ug_straggler}
                             \cup late
        /\ \E below \in BOOLEAN :
             LET conv == IF below /\ convergence_round = NoNumber
                         THEN ug_round ELSE convergence_round
             IN /\ convergence_round' = conv
                /\ ug_pc' = IF \/ (conv # NoNumber /\ ug_round > conv + CONVERGENCE_GRACE)
                               \/ ug_round + 1 >= UG_MAX_ROUNDS
                            THEN "done" ELSE "run"
  /\ ug_round' = ug_round + 1
  /\ UNCHANGED <<ug_byzantine, ug_straggler>>

NextGauntlet ==
  \/ InitNodes
  \/ RunRound

(***************************************************************************)
(* Class C collusion audit: evaluation/analysis/class_c_collusion_sim.py   *)
(* Node ids are those of the source: 0..CARTEL_SIZE-1 is the cartel.       *)
(***************************************************************************)

\* AUDIT_RATE = 0.02, in percent
AUDIT_RATE == 2
CARTEL_SIZE == 10
HONEST_SIZE == 90
NUM_ROUNDS == 200
DETECTION_THRESHOLD == 2

CCNodes == 0..(HONEST_SIZE + CARTEL_SIZE - 1)

\* cartel_ids = set(range(CARTEL_SIZE))
IsCartel(n) == n < CARTEL_SIZE

\* num_audits = max(1, int(self.num_nodes * self.audit_rate))
NumAudits == Max2(1, ((HONEST_SIZE + CARTEL_SIZE) * AUDIT_RATE) \div 100)

\* random.seed(round_num); set(random.sample(range(100), 2)) for round_num = 0..199:
\* the samples CPython's generator returns under each seed, in round order
AuditSchedule ==
<<
   {49, 97}, {17, 72}, {7, 11}, {30, 75}, {30, 38}, {79, 32}, {73, 10}, {41, 19},
   {29, 47}, {59, 78}, {73, 4}, {57, 71}, {60, 34}, {33, 37}, {13, 78}, {26, 1},
   {46, 60}, {66, 53}, {23, 15}, {86, 5}, {92, 87}, {21, 53}, {17, 31}, {99, 37},
   {91, 49}, {48, 98}, {95, 25}, {83, 61}, {14, 95}, {70, 9}, {69, 37}, {1, 60},
   {9, 27}, {73, 21}, {67, 45}, {70, 42}, {42, 7}, {87, 77}, {81, 53}, {26, 33},
   {58, 74}, {48, 42}, {81, 14}, {4, 36}, {52, 66}, {34, 53}, {9, 51}, {45, 8},
   {70, 40}, {8, 44}, {63, 34}, {31, 64}, {34, 6}, {78, 27}, {17, 56}, {11, 25},
   {71, 1}, {5, 47}, {74, 25}, {28, 10}, {39, 36}, {63, 23}, {73, 22}, {56, 37},
   {60, 15}, {53, 36}, {9, 39}, {9, 14}, {94, 59}, {87, 4}, {15, 37}, {41, 65},
   {9, 76}, {35, 15}, {78, 65}, {57, 74}, {47, 59}, {32, 41}, {24, 12}, {18, 56},
   {34, 50}, {64, 58}, {18, 98}, {63, 58}, {93, 36}, {25, 89}, {99, 3}, {18, 94},
   {50, 24}, {10, 98}, {26, 91}, {10, 75}, {53, 66}, {63, 72}, {69, 23}, {97, 68},
   {47, 40}, {24, 54}, {45, 73}, {51, 48}, {18, 58}, {74, 24}, {18, 86}, {91, 58},
   {2, 25}, {75, 44}, {90, 61}, {31, 79}, {16, 91}, {35, 29}, {49, 76}, {27, 40},
   {61, 85}, {3, 83}, {30, 72}, {36, 25}, {95, 76}, {30, 23}, {91, 80}, {36, 23},
   {65, 31}, {11, 27}, {65, 27}, {6, 34}, {35, 70}, {31, 28}, {73, 7}, {5, 79},
   {30, 51}, {75, 66}, {66, 54}, {40, 47}, {52, 19}, {63, 45}, {61, 66}, {85, 47},
   {73, 54}, {9, 23}, {24, 48}, {0, 88}, {98, 12}, {66, 99}, {74, 88}, {23, 5},
   {57, 4}, {96, 54}, {17, 79}, {77, 82}, {51, 89}, {9, 12}, {41, 51}, {90, 52},
   {96, 50}, {62, 9}, {26, 48}, {74, 64}, {62, 53}, {78, 62}, {87, 28}, {50, 21},
   {15, 64}, {66, 26}, {6, 88}, {69, 79}, {12, 94}, {2, 7}, {22, 80}, {29, 11},
   {95, 14}, {32, 66}, {44, 75}, {71, 49}, {45, 24}, {41, 62}, {0, 56}, {56, 30},
   {3, 7}, {27, 63}, {14, 71}, {25, 15}, {18, 10}, {74, 89}, {57, 45}, {13, 11},
   {35, 0}, {14, 19}, {43, 84}, {44, 60}, {90, 28}, {61, 95}, {9, 21}, {97, 67},
   {47, 38}, {71, 59}, {77, 8}, {76, 50}, {83, 64}, {69, 1}, {6, 73}, {44, 95}
>>

\* the selection with the seed of round 0 in every round
SelectAuditTargetsFixedSeed(round_num) == AuditSchedule[1]

\* AuditSystem.select_audit_targets(round_num)
SelectAuditTargets(round_num) == AuditSchedule[round_num + 1]

\* the comparison made strict
ReachesThresholdStrict(failures) == failures > DETECTION_THRESHOLD

\* "if node.audit_failures >= DETECTION_THRESHOLD"
ReachesThreshold(failures) == failures >= DETECTION_THRESHOLD

\* the nodes of targets whose audit is carried out: "if node.detected: continue"
Audited(targets) == {n \in targets : ~detected[n]}

CollusionInit ==
  /\ cc_round = 0
  /\ audit_failures = [n \in CCNodes |-> 0]
  /\ detected = [n \in CCNodes |-> FALSE]
  /\ detection_round = [n \in CCNodes |-> NoNumber]
  /\ audit_result = [audits |-> 0, honest_passed |-> 0, cartel_detected |-> 0]

\* one iteration of the loop of run_simulation: audit_system.audit_round(nodes, ..., round_num)
AuditRound ==
  /\ cc_round < NUM_ROUNDS
  /\ UNCHANGED nonCollusionVars
  /\ LET targets == SelectAuditTargets(cc_round)
         failing == {n \in Audited(targets) : IsCartel(n)}
         caught == {n \in failing : ReachesThreshold(audit_failures[n] + 1)}
     IN /\ audit_failures' = [n \in CCNodes |->
             IF n \in failing THEN audit_failures[n] + 1 ELSE audit_failures[n]]
        /\ detected' = [n \in CCNodes |-> detected[n] \/ n \in caught]
        /\ detection_round' = [n \in CCNodes |->
             IF n \in caught THEN cc_round ELSE detection_round[n]]
        /\ audit_result' = [audits |-> Cardinality(targets),
                            honest_passed |-> Cardinality(Audited(targets) \ failing),
                            cartel_detected |-> Cardinality(caught)]
  /\ cc_round' = cc_round + 1

NextCollusion == AuditRound

(***************************************************************************)
(* Viral straggler protocol: evaluation/analysis/phase1_viral_straggler.py *)
(* Energies are joules; residual_error and accuracy_delta are thousandths. *)
(* update_metrics draws its result from Gaussian noise: here the pair      *)
(* (residual_error, accuracy_delta) it leaves is drawn from MetricDraws.   *)
(***************************************************************************)

VS_N_NODES == 4
VS_MAX_ROUNDS == 2
\* STRAGGLER_RATIO = 0.30, in percent
VS_STRAGGLER_RATIO == 30
CONVERGENCE_TARGET == 10
CURE_RESIDUAL_THRESHOLD == 20
CURE_ACCURACY_MIN_DELTA == 50
\* ENERGY_RESERVE_THRESHOLD = 0.15, in percent
ENERGY_RESERVE_THRESHOLD == 15
GOSSIP_ENERGY_COST_J == 5
SOLAR_HARVEST_J_PER_ROUND == 50
\* initial_energy_ratio = 0.8, in percent
INITIAL_ENERGY_RATIO == 80
INITIAL_RESIDUAL_ERROR == 50

N_STRAGGLERS == (VS_N_NODES * VS_STRAGGLER_RATIO) \div 100

VSNodes == 0..(VS_N_NODES - 1)

\* outcomes of update_metrics: one inside both cure thresholds (and below the
\* convergence target), one on the two thresholds and so outside them
MetricDraws ==
  {[residual_error |-> 5, accuracy_delta |-> 60],
   [residual_error |-> 20, accuracy_delta |-> 50]}

\* Node.can_gossip, for a node of energy e
CanGossip(e) == e * 100 >= ENERGY_RESERVE_THRESHOLD * BATTERY_CAPACITY_J

\* Node.cure_threshold_met, for the metrics m
VSCureThresholdMet(m) ==
  /\ m.residual_error < CURE_RESIDUAL_THRESHOLD
  /\ m.accuracy_delta > CURE_ACCURACY_MIN_DELTA

\* Node.can_infect
VSCanInfect(m, e) == VSCureThresholdMet(m) /\ CanGossip(e)

\* Node.consume_gossip_energy: the energy left
ConsumeGossipEnergy(e) == IF CanGossip(e) THEN e - GOSSIP_ENERGY_COST_J ELSE e

\* Node.harvest_solar
HarvestSolar(e) == Min2(e + SOLAR_HARVEST_J_PER_ROUND, BATTERY_CAPACITY_J)

ViralInit ==
  /\ vs_pc = "main"
  /\ vs_round = 0
  /\ vs_stragglers = {}
  /\ infected_nodes = {}
  /\ vs_energy = [n \in VSNodes |-> 0]
  /\ vs_brownout_count = [n \in VSNodes |-> 0]
  /\ vs_residual_error = [n \in VSNodes |-> INITIAL_RESIDUAL_ERROR]
  /\ vs_accuracy_delta = [n \in VSNodes |-> 0]
  /\ fast_updates = {}
  /\ straggler_updates = {}
  /\ vs_convergence_rounds = 0

\* main: straggler_ids = RNG.choice(N_NODES, size=N_STRAGGLERS, replace=False); nodes_v20
ViralMain ==
  /\ vs_pc = "main"
  /\ UNCHANGED nonViralVars
  /\ \E ids \in SUBSET VSNodes :
       /\ Cardinality(ids) = N_STRAGGLERS
       /\ vs_stragglers' = ids
  /\ vs_energy' = [n \in VSNodes |-> (BATTERY_CAPACITY_J * INITIAL_ENERGY_RATIO) \div 100]
  /\ vs_pc' = "round"
  /\ UNCHANGED <<vs_round, infected_nodes, vs_brownout_count, vs_residual_error,
                 vs_accuracy_delta, fast_updates, straggler_updates, vs_convergence_rounds>>

\* the nodes the first loop of a round updates: "not node.is_straggler or node.node_id in infected_nodes"
FastOrInfected == {n \in VSNodes : n \notin vs_stragglers \/ n \in infected_nodes}

\* "converged_count >= 0.95 * N_NODES" for the residual errors r
Converged(r) ==
  100 * Cardinality({n \in VSNodes : r[n] < CONVERGENCE_TARGET}) >= 95 * VS_N_NODES

\* one iteration of the loop of simulate_v20_viral
ViralRound ==
  /\ vs_pc = "round"
  /\ UNCHANGED <<nonViralVars, vs_stragglers>>
  /\ \E m1 \in [FastOrInfected -> MetricDraws] :
       LET infecting == {n \in FastOrInfected : VSCanInfect(m1[n], vs_energy[n])}
           infected1 == infected_nodes \cup infecting
           late == vs_stragglers \ infected1
       IN \E arrived \in SUBSET late :
            \E m2 \in [arrived -> MetricDraws] :
              LET spending == infecting \cup arrived
                  residual == [n \in VSNodes |->
                    IF n \in FastOrInfected THEN m1[n].residual_error
                    ELSE IF n \in arrived THEN m2[n].residual_error
                    ELSE vs_residual_error[n]]
              IN /\ fast_updates' = infecting
                 /\ infected_nodes' = infected1
                 /\ straggler_updates' = arrived
                 /\ vs_residual_error' = residual
                 /\ vs_accuracy_delta' = [n \in VSNodes |->
                      IF n \in FastOrInfected THEN m1[n].accuracy_delta
                      ELSE IF n \in arrived THEN m2[n].accuracy_delta
                      ELSE vs_accuracy_delta[n]]
                 /\ vs_energy' = [n \in VSNodes |->
                      HarvestSolar(IF n \in spending
                                   THEN ConsumeGossipEnergy(vs_energy[n])
                                   ELSE vs_energy[n])]
                 /\ vs_brownout_count' = [n \in VSNodes |->
                      IF n \in spending /\ ~CanGossip(vs_energy[n])
                      THEN vs_brownout_count[n] + 1 ELSE vs_brownout_count[n]]
                 /\ IF Converged(residual)
                    THEN /\ vs_convergence_rounds' = vs_round + 1
                         /\ vs_round' = vs_round
                         /\ vs_pc' = "done"
                    ELSE /\ vs_convergence_rounds' = vs_convergence_rounds
                         /\ vs_round' = vs_round + 1
                         /\ vs_pc' = IF vs_round + 1 < VS_MAX_ROUNDS THEN "round" ELSE "done"

NextViral ==
  \/ ViralMain
  \/ ViralRound

(***************************************************************************)
(* Unified validation gossip: evaluation/analysis/unified_v20_validation.py *)
(* Reputations, errors and energy pools are thousandths. The model runs    *)
(* the first UV_ROUNDS rounds, with the Sybil window moved into them; the  *)
(* collusion window and the blackout round lie beyond them.                *)
(***************************************************************************)

UV_NUM_ZONES == 2
UV_NODES_PER_ZONE == 2
UV_ROUNDS == 9
\* SYBIL_ATTACK_ROUNDS = (40, 60)
UV_SYBIL_START == 6
UV_SYBIL_END == 8

STORM_ERROR_THRESHOLD == 80
STORM_QUORUM == 3
MIN_BRIDGE_REPUTATION == 800
CURE_THRESHOLD == 2
RESIDUAL_THRESHOLD == 30
\* SYBIL_FRACTION = 0.33, in percent
SYBIL_FRACTION == 33
UV_INITIAL_REPUTATION == 750
UV_INITIAL_ERROR == 30
UV_INITIAL_ENERGY == 1000

TOTAL_NODES == UV_NUM_ZONES * UV_NODES_PER_ZONE
UVNodes == 0..(TOTAL_NODES - 1)

\* node_id = zone_idx * NODES_PER_ZONE + i
UVZoneOf(n) == n \div UV_NODES_PER_ZONE

\* get_reputation_exponent(TOTAL_NODES), for the swarm sizes below 51
REPUTATION_EXPONENT == IF TOTAL_NODES < 20 THEN 2 ELSE 3

\* attention_weights = [0.4, 0.3, 0.3], in tenths
AttentionWeights == <<4, 3, 3>>

\* np.random.uniform(0.02, 0.05): the two ends of the interval
UniformDraws == {20, 50}

\* the modality errors of a fresh node: <<visual, audio, tactile>>
ModalityDraws == {<<d, d, d>> : d \in UniformDraws}

Abs(x) == IF x < 0 THEN -x ELSE x

\* np.clip(x, lo, hi)
Clip(x, lo, hi) == Max2(lo, Min2(x, hi))

NoStep == [node |-> NoNumber, peer |-> NoNumber, residual_error |-> 0,
           accuracy_delta |-> 0, infected |-> FALSE]
NoUpdate == [error |-> NoNumber, reputation |-> NoNumber]

ValidationInit ==
  /\ uv_pc = "main"
  /\ uv_round = 0
  /\ uv_idx = 0
  /\ uv_reputation = [n \in UVNodes |-> UV_INITIAL_REPUTATION]
  /\ uv_error = [n \in UVNodes |-> UV_INITIAL_ERROR]
  /\ viral_strain = [n \in UVNodes |-> 0]
  /\ cure_counter = [n \in UVNodes |-> 0]
  /\ is_attacker = [n \in UVNodes |-> FALSE]
  /\ is_bridge = [n \in UVNodes |-> FALSE]
  /\ uv_energy_pool = [n \in UVNodes |-> UV_INITIAL_ENERGY]
  /\ modality_errors = [n \in UVNodes |-> <<0, 0, 0>>]
  /\ uv_current_regime = "Calm"
  /\ vote_buffer = <<>>
  /\ uv_updates = [n \in UVNodes |-> NoUpdate]
  /\ uv_last = NoStep

\* run_unified_validation: the nodes are built, each drawing its modality errors
ValidationMain ==
  /\ uv_pc = "main"
  /\ UNCHANGED nonValidationVars
  /\ modality_errors' \in [UVNodes -> ModalityDraws]
  /\ uv_pc' = "attack"
  /\ UNCHANGED <<uv_round, uv_idx, uv_reputation, uv_error, viral_strain, cure_counter,
                 is_attacker, is_bridge, uv_energy_pool, uv_current_regime, vote_buffer,
                 uv_updates, uv_last>>

\* num_attackers = int(TOTAL_NODES * SYBIL_FRACTION): the nodes nodes[i], i < num_attackers
SybilAttackers == {n \in UVNodes : n < (TOTAL_NODES * SYBIL_FRACTION) \div 100}

\* inject_sybil_attack(nodes, round_num); inject_collusion_attack does nothing in these rounds
InjectAttacks ==
  /\ uv_pc = "attack"
  /\ UNCHANGED nonValidationVars
  /\ IF UV_SYBIL_START <= uv_round /\ uv_round < UV_SYBIL_END
     THEN /\ uv_error' = [n \in UVNodes |-> IF n \in SybilAttackers THEN 250 ELSE uv_error[n]]
          /\ uv_reputation' = [n \in UVNodes |->
               IF n \in SybilAttackers THEN 500 ELSE uv_reputation[n]]
          /\ is_attacker' = [n \in UVNodes |-> is_attacker[n] \/ n \in SybilAttackers]
          /\ modality_errors' = [n \in UVNodes |->
               IF n \in SybilAttackers THEN <<200, 200, 200>> ELSE modality_errors[n]]
     ELSE IF uv_round >= UV_SYBIL_END
     THEN /\ \E e \in [SybilAttackers -> UniformDraws] :
               uv_error' = [n \in UVNodes |-> IF n \in SybilAttackers THEN e[n] ELSE uv_error[n]]
          /\ uv_reputation' = [n \in UVNodes |->
               IF n \in SybilAttackers THEN UV_INITIAL_REPUTATION ELSE uv_reputation[n]]
          /\ is_attacker' = [n \in UVNodes |-> is_attacker[n] /\ n \notin SybilAttackers]
          /\ UNCHANGED modality_errors
     ELSE UNCHANGED <<uv_error, uv_reputation, is_attacker, modality_errors>>
  /\ uv_pc' = "vote"
  /\ UNCHANGED <<uv_round, uv_idx, viral_strain, cure_counter, is_bridge, uv_energy_pool,
                 uv_current_regime, vote_buffer, uv_updates, uv_last>>

\* RegimeDetector.vote for every node of voters, in node order, with the proposed regime
RECURSIVE CastVotes(_, _, _)
CastVotes(buffer, n, proposed) ==
  IF n >= TOTAL_NODES THEN buffer
  ELSE IF uv_reputation[n] >= 600 /\ ~is_attacker[n]
  THEN LET appended == Append(buffer, [node |-> n, regime |-> proposed,
                                        reputation |-> uv_reputation[n]])
       IN CastVotes(IF Len(appended) > 50 THEN Tail(appended) ELSE appended, n + 1, proposed)
  ELSE CastVotes(buffer, n + 1, proposed)

\* RegimeDetector.should_authorize_storm, for the vote buffer
ShouldAuthorizeStorm(buffer) ==
  /\ Len(buffer) >= STORM_QUORUM
  /\ Cardinality({i \in 1..Len(buffer) :
        buffer[i].regime = "Storm" /\ buffer[i].reputation >= MIN_BRIDGE_REPUTATION})
       >= STORM_QUORUM

\* gossip_round, lines 157-170: the nodes vote, the detector sets the regime
GossipVote ==
  /\ uv_pc = "vote"
  /\ UNCHANGED nonValidationVars
  /\ LET all_error_above == SumSeq([i \in 1..TOTAL_NODES |-> uv_error[i - 1]])
                              > STORM_ERROR_THRESHOLD * TOTAL_NODES
         buffer == CastVotes(vote_buffer, 0, IF all_error_above THEN "Storm" ELSE "Calm")
     IN /\ vote_buffer' = buffer
        /\ uv_current_regime' = IF ShouldAuthorizeStorm(buffer) THEN "Storm" ELSE "Calm"
  /\ uv_updates' = [n \in UVNodes |-> NoUpdate]
  /\ uv_idx' = 0
  /\ uv_pc' = "node"
  /\ UNCHANGED <<uv_round, uv_reputation, uv_error, viral_strain, cure_counter, is_attacker,
                 is_bridge, uv_energy_pool, modality_errors, uv_last>>

\* same_zone = [n for n in nodes if n.zone == node.zone and n.id != node.id]
SameZone(node) == {n \in UVNodes : UVZoneOf(n) = UVZoneOf(node) /\ n # node}

\* the peers the acting node may draw: a bridge of another zone if it is a bridge itself,
\* otherwise (or when the draw says so) a node of its own zone
PeerChoices(node) ==
  SameZone(node)
    \cup (IF is_bridge[node]
          THEN {n \in UVNodes : UVZoneOf(n) # UVZoneOf(node) /\ is_bridge[n]}
          ELSE {})

\* the attention-weighted modality error of the acting node
WeightedError(node) ==
  SumSeq([i \in 1..3 |-> AttentionWeights[i] * modality_errors[node][i]])
    \div SumSeq(AttentionWeights)

RECURSIVE Power(_, _)
Power(x, k) == IF k = 0 THEN 1 ELSE x * Power(x, k - 1)

\* (1 - alpha) * node.error + alpha * peer.error, alpha = 0.2 or 0.1 times
\* peer.reputation ** REPUTATION_EXPONENT
NewError(node, peer) ==
  LET tenths == IF uv_current_regime = "Storm" THEN 2 ELSE 1
  IN uv_error[node]
       + (tenths * Power(uv_reputation[peer], REPUTATION_EXPONENT)
            * (uv_error[peer] - uv_error[node]))
           \div (10 * Power(1000, REPUTATION_EXPONENT))

\* (1 - 0.05) * node.reputation + 0.05 * (1.0 - residual_error)
NewReputation(node, residual_error) ==
  (950 * uv_reputation[node] + 50 * (1000 - residual_error)) \div 1000

\* "if residual_error > RESIDUAL_THRESHOLD and peer.viral_strain == 0"
Infects(residual_error, peer) ==
  residual_error > RESIDUAL_THRESHOLD /\ viral_strain[peer] = 0

\* one iteration of the loop "for node in nodes" of gossip_round, lines 175-237
GossipNode ==
  /\ uv_pc = "node"
  /\ UNCHANGED nonValidationVars
  /\ LET node == uv_idx
     IN \/ /\ uv_energy_pool[node] >= 100
           /\ \E peer \in PeerChoices(node) :
                LET residual_error == Abs(WeightedError(node) - uv_error[peer])
                    accuracy_delta == Abs(uv_reputation[node] - uv_reputation[peer])
                    infected == Infects(residual_error, peer)
                    cured == viral_strain[node] > 0 /\ residual_error < 20
                IN /\ viral_strain' = [n \in UVNodes |->
                        IF n = peer /\ infected
                        THEN (IF viral_strain[node] > 0 THEN viral_strain[node] + 1 ELSE 1)
                        ELSE IF n = node /\ cured /\ cure_counter[node] + 1 >= CURE_THRESHOLD
                        THEN 0
                        ELSE viral_strain[n]]
                   /\ cure_counter' = [cure_counter EXCEPT ![node] =
                        IF cured /\ @ + 1 < CURE_THRESHOLD THEN @ + 1 ELSE 0]
                   /\ uv_updates' = [uv_updates EXCEPT ![node] =
                        [error |-> NewError(node, peer),
                         reputation |-> NewReputation(node, residual_error)]]
                   /\ uv_energy_pool' = [uv_energy_pool EXCEPT ![node] = @ - 1]
                   /\ uv_last' = [node |-> node, peer |-> peer,
                                  residual_error |-> residual_error,
                                  accuracy_delta |-> accuracy_delta, infected |-> infected]
        \/ /\ uv_energy_pool[node] < 100 \/ SameZone(node) = {}
           /\ uv_last' = NoStep
           /\ UNCHANGED <<viral_strain, cure_counter, uv_updates, uv_energy_pool>>
  /\ uv_idx' = uv_idx + 1
  /\ uv_pc' = IF uv_idx + 1 < TOTAL_NODES THEN "node" ELSE "apply"
  /\ UNCHANGED <<uv_round, uv_reputation, uv_error, is_attacker, is_bridge,
                 modality_errors, uv_current_regime, vote_buffer>>

\* gossip_round, lines 239-248: the updates are applied and every bridge status refreshed;
\* then the next round of run_unified_validation
GossipApply ==
  /\ uv_pc = "apply"
  /\ UNCHANGED nonValidationVars
  /\ LET reputations == [n \in UVNodes |->
           IF uv_updates[n] # NoUpdate
           THEN Clip(uv_updates[n].reputation, 0, 1000) ELSE uv_reputation[n]]
     IN /\ uv_reputation' = reputations
        /\ uv_error' = [n \in UVNodes |->
             IF uv_updates[n] # NoUpdate THEN Clip(uv_updates[n].error, 1, 1000) ELSE uv_error[n]]
        /\ is_bridge' = [n \in UVNodes |->
             reputations[n] >= MIN_BRIDGE_REPUTATION /\ ~is_attacker[n]]
  /\ uv_round' = uv_round + 1
  /\ uv_pc' = IF uv_round + 1 < UV_ROUNDS THEN "attack" ELSE "done"
  /\ UNCHANGED <<uv_idx, viral_strain, cure_counter, is_attacker, uv_energy_pool,
                 modality_errors, uv_current_regime, vote_buffer, uv_updates, uv_last>>

NextValidation ==
  \/ ValidationMain
  \/ InjectAttacks
  \/ GossipVote
  \/ GossipNode
  \/ GossipApply

(***************************************************************************)
(* Single calls of reputation_gated_trimmed_mean and of the methods of     *)
(* ReputationTracker (evaluation/analysis/reputation_gated_sim.py), with   *)
(* arguments drawn from small sets. Updates have one dimension.            *)
(***************************************************************************)

AG_MAX_N == 3
AG_MAX_F == 2
TR_MAX_CALLS == 3

\* the coordinates generate_updates produces, in tenths
AggregateUpdates == HonestVals \cup {BYZ_OFFSET}
\* reputation scores: at the floor, between BAN_THRESHOLD and SOFT_GATE_THRESHOLD, admitted
AggregateReps == {0, 30, 50}
\* amounts a caller may pass to reward and penalize: the defaults, the decay of
\* gated-out nodes, more than the whole range, and a negative amount
AmountVals == {GATED_OUT_DECAY, HONEST_REWARD, 10, 150, -60}

NoAggregate == [updates |-> <<>>, f |-> 0, reps |-> <<>>, admitted |-> <<>>, kept |-> <<>>,
                result |-> [num |-> 0, den |-> 1]]

LibraryInit ==
  /\ ag_call = NoAggregate
  /\ tr_score = DEFAULT_TRUST
  /\ tr_calls = 0

\* one call reputation_gated_trimmed_mean(updates, f, reputation_scores): its arguments,
\* its local kept (positions in the admitted rows) and what it returns
AggregateCall ==
  /\ ag_call = NoAggregate
  /\ UNCHANGED <<nonLibraryVars, tr_score, tr_calls>>
  /\ \E n \in 1..AG_MAX_N : \E f \in 0..AG_MAX_F :
       \E upd \in [Positions(n) -> AggregateUpdates] : \E reps \in [Positions(n) -> AggregateReps] :
         LET g == ReputationGatedTrimmedMean(upd, f, reps)
             admitted_updates == [k \in 1..Len(g.admitted) |-> upd[g.admitted[k]]]
         IN ag_call' = [updates |-> upd, f |-> f, reps |-> reps, admitted |-> g.admitted,
                        kept |-> Kept(ArgSort(admitted_updates),
                                      EffectiveF(f, Len(g.admitted))),
                        result |-> g.result]

NextAggregate == AggregateCall

\* ReputationTracker.reward([i], amount), on a score that is still in range
TrackerReward ==
  /\ tr_calls < TR_MAX_CALLS
  /\ UNCHANGED <<nonLibraryVars, ag_call>>
  /\ \E amount \in AmountVals : tr_score' = Reward(tr_score, amount)
  /\ tr_calls' = tr_calls + 1

\* ReputationTracker.penalize([i], amount)
TrackerPenalize ==
  /\ tr_calls < TR_MAX_CALLS
  /\ UNCHANGED <<nonLibraryVars, ag_call>>
  /\ \E amount \in AmountVals : tr_score' = Penalize(tr_score, amount)
  /\ tr_calls' = tr_calls + 1

\* ReputationTracker.penalize_trim_margin([i])
TrackerPenalizeTrimMargin ==
  /\ tr_calls < TR_MAX_CALLS
  /\ UNCHANGED <<nonLibraryVars, ag_call>>
  /\ tr_score' = PenalizeTrimMargin(tr_score)
  /\ tr_calls' = tr_calls + 1

NextTracker ==
  \/ TrackerReward
  \/ TrackerPenalize
  \/ TrackerPenalizeTrimMargin

(***************************************************************************)
(* reputation_weighted_aggregation of examples/python/04_byzantine_defense  *)
(* Reputations are hundredths, influences millionths (rep ** 3.0).          *)
(***************************************************************************)

\* how many nodes one call aggregates at most
IW_MAX_N == 3
\* "rep_cubed * 0.8", in tenths
INFLUENCE_FACTOR == 8
\* "np.minimum(..., 1.0)  # Influence cap", in millionths
INFLUENCE_CAP == 1000000
\* the reputations a call is given, all within [0, 1]
InfluenceReps == {0, 50, 100}
\* the values a call is given
InfluenceValues == {0, 100}

\* influence = np.minimum(rep_cubed * 0.8, 1.0)
Influence(rep) == Min2((rep * rep * rep * INFLUENCE_FACTOR) \div 10, INFLUENCE_CAP)

\* weights = influence / np.sum(influence); return np.dot(values, weights).
\* The weights are the fractions influence[i] / total; with total = 0 numpy divides
\* 0.0 by 0.0 and every weight, and the result, is nan.
ReputationWeightedAggregation(values, reputations) ==
  LET influence == [i \in 1..Len(reputations) |-> Influence(reputations[i])]
      total == SumSeq(influence)
  IN [values |-> values, reputations |-> reputations, influence |-> influence,
      total |-> total, nan |-> (total = 0),
      result |-> [num |-> SumSeq([i \in 1..Len(values) |-> values[i] * influence[i]]),
                  den |-> total]]

NoInfluence == [values |-> <<>>, reputations |-> <<>>, influence |-> <<>>,
                total |-> 0, nan |-> FALSE, result |-> [num |-> 0, den |-> 1]]

InfluenceInit == iw_call = NoInfluence

\* one call of reputation_weighted_aggregation(values, reputations)
InfluenceCall ==
  /\ iw_call = NoInfluence
  /\ \E n \in 1..IW_MAX_N :
       \E values \in [Positions(n) -> InfluenceValues] :
         \E reputations \in [Positions(n) -> InfluenceReps] :
           iw_call' = ReputationWeightedAggregation(values, reputations)
  /\ UNCHANGED nonInfluenceVars

NextInfluence == InfluenceCall

(***************************************************************************)
(* WorldStateManager of bindings/python/qres/persistent.py                  *)
(* A version key is the pair of its prefix and its number: "v1" is          *)
(* [prefix |-> "v", n |-> 1], f"world_v{int(time.time())}" at second t is   *)
(* [prefix |-> "world_v", n |-> t].  Numbers of one prefix have the same    *)
(* count of digits, so the order of the strings is the order of the pairs.  *)
(***************************************************************************)

\* the last second of the clock int(time.time()) the model follows
WS_MAX_CLOCK == 2
\* how many snapshots are stored at most
WS_MAX_SAVES == 3
\* how many caller-chosen versions "v1", "v2", ... are used
WS_EXPLICIT == 2

Seconds == 1..WS_MAX_CLOCK
ExplicitVersions == {[prefix |-> "v", n |-> i] : i \in 1..WS_EXPLICIT}
\* version = f"world_v{int(time.time())}"
AutoVersion(now) == [prefix |-> "world_v", n |-> now]
\* merged_version = f"merged_{int(time.time())}"
MergedVersion(now) == [prefix |-> "merged_", n |-> now]
Versions == ExplicitVersions \cup {AutoVersion(t) : t \in Seconds}
              \cup {MergedVersion(t) : t \in Seconds}

\* the order of sorted() on the keys: 'm' < 'v' < 'w', and "v1" < "world_v..."
PrefixRank(prefix) == CASE prefix = "merged_" -> 1 [] prefix = "v" -> 2 [] OTHER -> 3
VersionLess(a, b) ==
  \/ PrefixRank(a.prefix) < PrefixRank(b.prefix)
  \/ a.prefix = b.prefix /\ a.n < b.n

\* self.states: the snapshot (numbered by the store that wrote it) of each key, Absent
\* for a key that is not in the dictionary
Absent == 0
EmptyStates == [v \in Versions |-> Absent]
Keys(states) == {v \in Versions : states[v] # Absent}
NoVersion == [prefix |-> "None", n |-> 0]

\* list_versions: sorted(self.states.keys()); get_latest_version: versions[-1] or None
GetLatestVersion(states) ==
  IF Keys(states) = {} THEN NoVersion
  ELSE CHOOSE v \in Keys(states) : \A w \in Keys(states) : w = v \/ VersionLess(w, v)

\* the database file: absent, a complete JSON document, or one that open(..., 'w')
\* truncated and json.dump did not finish
NoFile == [exists |-> FALSE, valid |-> FALSE, states |-> EmptyStates]
PartialFile == [exists |-> TRUE, valid |-> FALSE, states |-> EmptyStates]
CompleteFile(states) == [exists |-> TRUE, valid |-> TRUE, states |-> states]

\* _load_db: the file's states; {} when there is no file or json.load raises
LoadDb(disk) == IF disk.exists /\ disk.valid THEN disk.states ELSE EmptyStates

\* _save_db: "ok"; open() raises and the file is untouched; json.dump raises after
\* open() truncated the file (the exception is printed and swallowed); the process
\* stops between open() and the end of json.dump
SaveOutcomes == {"ok", "open_fails", "dump_fails", "interrupted"}
SaveDb(disk, states, outcome) ==
  CASE outcome = "ok" -> CompleteFile(states)
    [] outcome = "open_fails" -> disk
    [] OTHER -> PartialFile

NoOp == [op |-> "none", version |-> NoVersion, auto |-> FALSE, stored |-> FALSE,
         outcome |-> "ok"]

WorldStateInit ==
  /\ ws_states = LoadDb(NoFile)
  /\ ws_disk = NoFile
  /\ ws_clock = 1
  /\ ws_up = TRUE
  /\ ws_saves = 0
  /\ ws_last = NoOp

\* "self.states[version] = world_state; self._save_db()" of serialize_world_state
Store(op, version, auto, outcome) ==
  /\ ws_saves < WS_MAX_SAVES
  /\ ws_saves' = ws_saves + 1
  /\ ws_states' = [ws_states EXCEPT ![version] = ws_saves + 1]
  /\ ws_disk' = SaveDb(ws_disk, ws_states', outcome)
  /\ ws_up' = (outcome # "interrupted")
  /\ ws_last' = [op |-> op, version |-> version, auto |-> auto, stored |-> TRUE,
                 outcome |-> outcome]
  /\ UNCHANGED ws_clock

\* serialize_world_state(graph, ..., version): version is None or a caller's key
SerializeWorldState ==
  /\ ws_up
  /\ \E outcome \in SaveOutcomes :
       \/ Store("serialize", AutoVersion(ws_clock), TRUE, outcome)
       \/ \E version \in ExplicitVersions : Store("serialize", version, FALSE, outcome)
  /\ UNCHANGED nonWorldStateVars

\* merge_world_states(local_version, remote_version)
MergeWorldStates ==
  /\ ws_up
  /\ \E local_version, remote_version \in Versions :
       IF ws_states[local_version] = Absent \/ ws_states[remote_version] = Absent
       THEN \* "Merge failed: Missing state": nothing is stored
            /\ ws_last' = [op |-> "merge",
                           version |-> IF ws_states[local_version] # Absent
                                       THEN local_version ELSE remote_version,
                           auto |-> FALSE, stored |-> FALSE, outcome |-> "ok"]
            /\ UNCHANGED <<ws_states, ws_disk, ws_clock, ws_up, ws_saves>>
       ELSE \E outcome \in SaveOutcomes :
              Store("merge", MergedVersion(ws_clock), TRUE, outcome)
  /\ UNCHANGED nonWorldStateVars

\* a second of time.time() passes
Tick ==
  /\ ws_clock < WS_MAX_CLOCK
  /\ ws_clock' = ws_clock + 1
  /\ UNCHANGED <<ws_states, ws_disk, ws_up, ws_saves, ws_last>>
  /\ UNCHANGED nonWorldStateVars

\* the process is started again: WorldStateManager.__init__ runs _load_db
Restart ==
  /\ ws_states' = LoadDb(ws_disk)
  /\ ws_up' = TRUE
  /\ ws_last' = [NoOp EXCEPT !.op = "restart"]
  /\ UNCHANGED <<ws_disk, ws_clock, ws_saves>>
  /\ UNCHANGED nonWorldStateVars

NextWorldState == SerializeWorldState \/ MergeWorldStates \/ Tick \/ Restart

(***************************************************************************)
(* QRES_API.broadcast_world_state of bindings/python/qres/api.py and the    *)
(* outbox directories.  A file is [stem, version, time, ext, header].       *)
(***************************************************************************)

\* how many broadcast calls are followed
BC_MAX_CALLS == 2

\* QRES_API(mode, enable_persistence=True): the default of the constructor
persistence_enabled == TRUE

\* filename = f"tensor_outbox/world_{version}_{int(time.time()*1000)}.qws",
\* broadcast_data = b"QRES_WORLD_STATE" + serialized
WorldFile(version, now) ==
  [stem |-> "world_", version |-> version, time |-> now, ext |-> ".qws",
   header |-> "QRES_WORLD_STATE"]

\* filename = f"{OUTBOX_PATH}/epiphany_{timestamp}_{self.node_id}.bin",
\* message = b"QRES_EPIPHANY_V1" + payload + weights_bytes
EpiphanyFile(now) ==
  [stem |-> "epiphany_", version |-> NoVersion, time |-> now, ext |-> ".bin",
   header |-> "QRES_EPIPHANY_V1"]

NoBroadcast == [version |-> NoVersion, returned |-> FALSE]

BroadcastInit ==
  /\ quantum_outbox = {}
  /\ tensor_outbox = {}
  /\ bc_calls = 0
  /\ bc_last = NoBroadcast

\* open(filename, "wb") in tensor_outbox, then "return True"
WriteWorldFile(version) ==
  /\ tensor_outbox' = tensor_outbox \cup {WorldFile(version, ws_clock)}
  /\ bc_last' = [version |-> version, returned |-> TRUE]
  /\ UNCHANGED quantum_outbox

\* "return False", and the call that stops with the process
ReturnFalse(version) ==
  /\ bc_last' = [version |-> version, returned |-> FALSE]
  /\ UNCHANGED <<quantum_outbox, tensor_outbox>>

\* QRES_API.broadcast_world_state(version)
BroadcastWorldState ==
  /\ ws_up
  /\ bc_calls < BC_MAX_CALLS
  /\ bc_calls' = bc_calls + 1
  /\ \/ /\ ~persistence_enabled
        /\ ReturnFalse(NoVersion)
        /\ UNCHANGED worldStateVars
     \/ \* version is None: "version = self.save_world_state()"
        /\ persistence_enabled
        /\ \E outcome \in SaveOutcomes :
             /\ Store("serialize", AutoVersion(ws_clock), TRUE, outcome)
             /\ IF outcome = "interrupted"
                THEN ReturnFalse(AutoVersion(ws_clock))
                ELSE WriteWorldFile(AutoVersion(ws_clock))
     \/ /\ persistence_enabled
        /\ \E version \in Versions :
             IF ws_states[version] = Absent
             THEN ReturnFalse(version)       \* "Version {version} not found"
             ELSE WriteWorldFile(version)
        /\ UNCHANGED worldStateVars
  /\ UNCHANGED nonApiVars

\* SwarmClient.broadcast_epiphany(weights_bytes, fidelity_score)
BroadcastEpiphany ==
  /\ quantum_outbox' = quantum_outbox \cup {EpiphanyFile(ws_clock)}
  /\ UNCHANGED <<tensor_outbox, bc_calls, bc_last>>
  /\ UNCHANGED nonBroadcastVars

NextBroadcast == BroadcastWorldState \/ BroadcastEpiphany \/ SerializeWorldState \/ Tick

(***************************************************************************)
(* SwarmClient.delta_compress / delta_decompress of swarm_cli.py            *)
(* A byte string is a sequence of byte values 0..255.                       *)
(***************************************************************************)

\* how many bytes a byte string has at most, the six of a leading b"DELTA:" aside
DC_MAX_LEN == 2

\* b"DELTA:"
DELTA_PREFIX == <<68, 69, 76, 84, 65, 58>>

\* the byte values the strings are drawn from
ByteVals == {0, 1, 255}

RECURSIVE ByteStringsOfLen(_)
ByteStringsOfLen(n) ==
  IF n = 0 THEN {<<>>}
  ELSE {Append(s, b) : s \in ByteStringsOfLen(n - 1), b \in ByteVals}

\* the byte strings given to the calls: some begin with the bytes of b"DELTA:"
ByteStrings ==
  LET bodies == UNION {ByteStringsOfLen(n) : n \in 0..DC_MAX_LEN}
  IN bodies \cup {DELTA_PREFIX \o s : s \in bodies}

\* a ^ b on two bytes
RECURSIVE Xor(_, _)
Xor(a, b) ==
  IF a = 0 /\ b = 0 THEN 0
  ELSE (((a % 2) + (b % 2)) % 2) + 2 * Xor(a \div 2, b \div 2)

\* bytes(a ^ b for a, b in zip(x, y)): zip stops at the shorter of the two
XorZip(x, y) == [i \in 1..Min2(Len(x), Len(y)) |-> Xor(x[i], y[i])]

\* delta.count(0)
CountZeros(delta) == Cardinality({i \in 1..Len(delta) : delta[i] = 0})

\* data.startswith(b"DELTA:")
StartsWithDelta(data) ==
  Len(data) >= Len(DELTA_PREFIX) /\ SubSeq(data, 1, Len(DELTA_PREFIX)) = DELTA_PREFIX

\* delta_compress(current, previous); "zeros > len(delta) * 0.5" is 2 * zeros > len(delta)
DeltaCompressed(current, previous) ==
  IF Len(current) # Len(previous) THEN current
  ELSE LET delta == XorZip(current, previous)
       IN IF 2 * CountZeros(delta) > Len(delta) THEN DELTA_PREFIX \o delta ELSE current

\* delta_decompress(delta_or_full, previous)
DeltaDecompressed(delta_or_full, previous) ==
  IF StartsWithDelta(delta_or_full)
  THEN XorZip(SubSeq(delta_or_full, Len(DELTA_PREFIX) + 1, Len(delta_or_full)), previous)
  ELSE delta_or_full

DeltaInit ==
  /\ dc_pc = "idle"
  /\ dc_current = <<>>
  /\ dc_previous = <<>>
  /\ dc_sent = <<>>
  /\ dc_restored = <<>>

\* the sender calls delta_compress(current, previous)
DeltaCompress ==
  /\ dc_pc = "idle"
  /\ \E current, previous \in ByteStrings :
       /\ dc_current' = current
       /\ dc_previous' = previous
       /\ dc_sent' = DeltaCompressed(current, previous)
  /\ dc_pc' = "sent"
  /\ UNCHANGED dc_restored
  /\ UNCHANGED nonDeltaVars

\* the receiver calls delta_decompress on what was sent, with the same previous
DeltaDecompress ==
  /\ dc_pc = "sent"
  /\ dc_restored' = DeltaDecompressed(dc_sent, dc_previous)
  /\ dc_pc' = "restored"
  /\ UNCHANGED <<dc_current, dc_previous, dc_sent>>
  /\ UNCHANGED nonDeltaVars

NextDelta == DeltaCompress \/ DeltaDecompress

(***************************************************************************)
(* RegimeDetectorV21 of evaluation/analysis/regime_hysteresis_sim.py        *)
(* Entropies are tenths; a derivative is kept tripled (smoothed is the mean *)
(* of three samples), so it stays an integer.                               *)
(***************************************************************************)

\* ENTROPY_THRESHOLD = 2.0
ENTROPY_THRESHOLD == 20
\* DERIVATIVE_THRESHOLD = 0.3
DERIVATIVE_THRESHOLD == 3
\* HYSTERESIS_ROUNDS = 3
HYSTERESIS_ROUNDS == 3

\* 0 = Calm, 1 = PreStorm, 2 = Storm; pending_regime = None
V21_CALM == 0
V21_PRESTORM == 1
V21_STORM == 2
NonePending == -1

\* the entropies an update is given (generate_entropy_signal returns max(0, ...))
V21EntropyVals == {5, 12, 25, 40}

\* get_required_confirmations(from_regime, to_regime)
RequiredConfirmations(from_regime, to_regime) ==
  CASE <<from_regime, to_regime>> = <<0, 1>> -> (2 * HYSTERESIS_ROUNDS) \div 3
    [] <<from_regime, to_regime>> = <<1, 2>> -> HYSTERESIS_ROUNDS
    [] <<from_regime, to_regime>> = <<0, 2>> -> HYSTERESIS_ROUNDS
    [] <<from_regime, to_regime>> = <<2, 0>> -> (5 * HYSTERESIS_ROUNDS) \div 3
    [] <<from_regime, to_regime>> = <<2, 1>> -> HYSTERESIS_ROUNDS
    [] <<from_regime, to_regime>> = <<1, 0>> -> (2 * HYSTERESIS_ROUNDS) \div 3
    [] OTHER -> 1

\* the indicated regime of update(): tripled derivative = entropy - replaced sample
Indicated(entropy, derivative3) ==
  IF entropy > ENTROPY_THRESHOLD THEN V21_STORM
  ELSE IF derivative3 > 3 * DERIVATIVE_THRESHOLD THEN V21_PRESTORM
  ELSE V21_CALM

HysteresisInit ==
  /\ entropy_buffer = <<0, 0, 0>>
  /\ v21_idx = 0
  /\ v21_regime = V21_CALM
  /\ transition_streak = 0
  /\ pending_regime = NonePending
  /\ v21_derivative = 0
  /\ v21_previous_derivative = 0

\* apply_hysteresis(indicated_regime): the assignments to regime, pending_regime and
\* transition_streak
ApplyHysteresis(indicated_regime) ==
  IF indicated_regime = v21_regime
  THEN /\ pending_regime' = NonePending
       /\ transition_streak' = 0
       /\ v21_regime' = v21_regime
  ELSE LET streak == IF pending_regime = indicated_regime
                     THEN transition_streak + 1 ELSE 1
       IN IF streak >= RequiredConfirmations(v21_regime, indicated_regime)
          THEN /\ pending_regime' = NonePending
               /\ transition_streak' = 0
               /\ v21_regime' = indicated_regime
          ELSE /\ pending_regime' = indicated_regime
               /\ transition_streak' = streak
               /\ v21_regime' = v21_regime

\* RegimeDetectorV21.update(entropy); idx is kept modulo 3, the only way it is used
V21Update ==
  /\ \E entropy \in V21EntropyVals :
       LET derivative3 == entropy - entropy_buffer[v21_idx + 1]
       IN /\ entropy_buffer' = [entropy_buffer EXCEPT ![v21_idx + 1] = entropy]
          /\ v21_idx' = (v21_idx + 1) % 3
          /\ v21_previous_derivative' = v21_derivative
          /\ v21_derivative' = derivative3
          /\ ApplyHysteresis(Indicated(entropy, derivative3))
  /\ UNCHANGED nonHysteresisVars

NextHysteresis == V21Update

(***************************************************************************)
(* Hive server: tools/dev/hive_server.py                                    *)
(* app.run() serves each request in its own thread; the handlers share      *)
(* pending_contributions and global_state without a lock.  A thread may be  *)
(* preempted between the statements below.  Contributions are numbered in   *)
(* the order they are appended; weights and sample counts are left out.     *)
(***************************************************************************)

\* how many request threads run at once
HV_THREADS == 2
\* how many contributions are posted, and how many resets
HV_MAX_CONTRIBUTIONS == 3
HV_MAX_RESETS == 1
\* global_state["min_clients"]
MIN_CLIENTS == 1

HVThreads == 1..HV_THREADS
Contributions == 1..HV_MAX_CONTRIBUTIONS

IdleThread == [pc |-> "idle", round |-> 0, dict |-> 0]

HiveInit ==
  /\ pending_contributions = <<>>
  /\ hv_round = 0
  /\ hv_dict = 0
  /\ hv_threads = [t \in HVThreads |-> IdleThread]
  /\ hv_included = [c \in Contributions |-> 0]
  /\ hv_accepted = 0

\* contribute(), lines 74-91: pending_contributions.append({...})
ContributeAppend(t) ==
  /\ hv_threads[t].pc = "idle"
  /\ hv_accepted < HV_MAX_CONTRIBUTIONS
  /\ hv_accepted' = hv_accepted + 1
  /\ pending_contributions' = Append(pending_contributions, hv_accepted + 1)
  /\ hv_threads' = [hv_threads EXCEPT ![t].pc = "trigger"]
  /\ UNCHANGED <<hv_round, hv_dict, hv_included>>
  /\ UNCHANGED nonHiveVars

\* contribute(), lines 93-102: "if len(pending_contributions) >= min_clients", and
\* aggregate_updates(), line 111: "if not pending_contributions: return"
ContributeTrigger(t) ==
  /\ hv_threads[t].pc = "trigger"
  /\ hv_threads' = [hv_threads EXCEPT ![t].pc =
       IF Len(pending_contributions) >= MIN_CLIENTS /\ pending_contributions # <<>>
       THEN "sum" ELSE "idle"]
  /\ UNCHANGED <<pending_contributions, hv_round, hv_dict, hv_included, hv_accepted>>
  /\ UNCHANGED nonHiveVars

\* aggregate_updates(), lines 115-158: the loop adds every pending contribution to
\* weighted_sum, and the result is mixed into global_state["weights"]
AggregateSum(t) ==
  /\ hv_threads[t].pc = "sum"
  /\ hv_included' = [c \in Contributions |->
       IF c \in SeqRange(pending_contributions) THEN hv_included[c] + 1
       ELSE hv_included[c]]
  /\ hv_threads' = [hv_threads EXCEPT ![t].pc = "read_round"]
  /\ UNCHANGED <<pending_contributions, hv_round, hv_dict, hv_accepted>>
  /\ UNCHANGED nonHiveVars

\* line 159, global_state["round"] += 1: the dictionary and its entry are read
AggregateReadRound(t) ==
  /\ hv_threads[t].pc = "read_round"
  /\ hv_threads' = [hv_threads EXCEPT ![t] =
       [pc |-> "write_round", round |-> hv_round, dict |-> hv_dict]]
  /\ UNCHANGED <<pending_contributions, hv_round, hv_dict, hv_included, hv_accepted>>
  /\ UNCHANGED nonHiveVars

\* line 159, global_state["round"] += 1: the sum is stored into the dictionary that was
\* read, which reset() may have replaced in the meantime
AggregateWriteRound(t) ==
  /\ hv_threads[t].pc = "write_round"
  /\ hv_round' = IF hv_threads[t].dict = hv_dict THEN hv_threads[t].round + 1
                 ELSE hv_round
  /\ hv_threads' = [hv_threads EXCEPT ![t].pc = "clear"]
  /\ UNCHANGED <<pending_contributions, hv_dict, hv_included, hv_accepted>>
  /\ UNCHANGED nonHiveVars

\* lines 161-175: metrics, pending_contributions.clear(), save_state(), and the reply
AggregateClear(t) ==
  /\ hv_threads[t].pc = "clear"
  /\ pending_contributions' = <<>>
  /\ hv_threads' = [hv_threads EXCEPT ![t] = IdleThread]
  /\ UNCHANGED <<hv_round, hv_dict, hv_included, hv_accepted>>
  /\ UNCHANGED nonHiveVars

\* reset(): global_state is bound to a new dictionary with "round": 0;
\* pending_contributions is not touched
HiveReset ==
  /\ hv_dict < HV_MAX_RESETS
  /\ hv_dict' = hv_dict + 1
  /\ hv_round' = 0
  /\ UNCHANGED <<pending_contributions, hv_threads, hv_included, hv_accepted>>
  /\ UNCHANGED nonHiveVars

NextHive ==
  \/ \E t \in HVThreads : ContributeAppend(t)
  \/ \E t \in HVThreads : ContributeTrigger(t)
  \/ \E t \in HVThreads : AggregateSum(t)
  \/ \E t \in HVThreads : AggregateReadRound(t)
  \/ \E t \in HVThreads : AggregateWriteRound(t)
  \/ \E t \in HVThreads : AggregateClear(t)
  \/ HiveReset

Init ==
  /\ RegimeInit
  /\ SentinelInit
  /\ GatedInit
  /\ InboxInit
  /\ MultimodalInit
  /\ GauntletInit
  /\ HiveInit
  /\ HysteresisInit
  /\ DeltaInit
  /\ BroadcastInit
  /\ WorldStateInit
  /\ InfluenceInit
  /\ LibraryInit
  /\ ValidationInit
  /\ ViralInit
  /\ CollusionInit

\* the gated aggregation called on a tracker whose scores are any of ScoreVals
InitAnyScores ==
  /\ RegimeInit
  /\ SentinelInit
  /\ GatedInitAnyScores
  /\ InboxInit
  /\ MultimodalInit
  /\ GauntletInit
  /\ HiveInit
  /\ HysteresisInit
  /\ DeltaInit
  /\ BroadcastInit
  /\ WorldStateInit
  /\ InfluenceInit
  /\ LibraryInit
  /\ ValidationInit
  /\ ViralInit
  /\ CollusionInit

SpecRegime == Init /\ [][NextRegime]_vars

SpecSentinel == Init /\ [][NextSentinel]_vars

SpecBridge == Init /\ [][NextBridge]_vars

SpecGated == InitAnyScores /\ [][NextGated]_vars

SpecInbox == Init /\ [][NextInbox]_vars

SpecMultimodal == Init /\ [][NextMultimodal]_vars

SpecGauntlet == Init /\ [][NextGauntlet]_vars

SpecCollusion == Init /\ [][NextCollusion]_vars

SpecViral == Init /\ [][NextViral]_vars

SpecValidation == Init /\ [][NextValidation]_vars

SpecAggregate == Init /\ [][NextAggregate]_vars

SpecTracker == Init /\ [][NextTracker]_vars

SpecInfluence == Init /\ [][NextInfluence]_vars

SpecWorldState == Init /\ [][NextWorldState]_vars

SpecBroadcast == Init /\ [][NextBroadcast]_vars

SpecDelta == Init /\ [][NextDelta]_vars

SpecHysteresis == Init /\ [][NextHysteresis]_vars

SpecHive == Init /\ [][NextHive]_vars

(***************************************************************************)
(* Properties                                                              *)
(***************************************************************************)

\* the detector of 05_regime_transitions.py has just entered Storm
EnteredStorm == current_regime # "Storm" /\ current_regime' = "Storm"

\* some zone holds the quorum of nodes with reputation above HIGH_REP_THRESHOLD
QuorumCorroborates == \E z \in ZoneNames : CountHighReputation(z) >= REGIME_QUORUM_MIN

\* C1: the regime becomes Storm only in a round in which at least REGIME_QUORUM_MIN
\* nodes with reputation above HIGH_REP_THRESHOLD corroborate; entropy alone never
\* produces Storm.
C1_StormNeedsQuorum == [][EnteredStorm => QuorumCorroborates']_vars

\* C5: an update processed in PreStorm with a negative derivative leaves the
\* detector in Calm, whatever the entropy of the sample.
C5_PreStormNegativeDerivativeCalms ==
  [][(current_regime = "PreStorm" /\ entropy_history' # entropy_history
        /\ Derivative2(entropy_history') < 0)
      => current_regime' = "Calm"]_vars

\* entropy below θ3 on each of the 5 most recent updates
FiveRecentBelowTheta3(h) ==
  /\ Len(h) = HistoryLen
  /\ \A i \in 1..Len(h) : h[i] < Theta3CalmRecovery

\* C6: in Storm the detector moves to Calm on exactly the updates at which entropy
\* was below θ3 on the 5 most recent updates and the minimum dwell has elapsed.
C6_StormLeavesExactly ==
  [][(current_regime = "Storm" /\ storm_duration' = storm_duration + 1)
      => (current_regime' = "Calm"
            <=> (FiveRecentBelowTheta3(entropy_history') /\ storm_duration' > TMinStorm))]_vars

\* the power loss is over: the state was saved, wiped and restored
Restored ==
  \/ round_idx > BLACKOUT_ROUND + 1
  \/ round_idx = BLACKOUT_ROUND + 1 /\ pc \notin {"start", "power"}

\* C7: after save, wipe and restore every node's weights equal, element for element,
\* the weights it held at the moment of the save (maximum absolute difference 0).
C7_LamarckianExact ==
  Restored => /\ \A n \in Nodes : weights[n] = pre_loss[n]
              /\ max_error = 0

\* C7 witness: the run ended after a blackout that wiped non-zero weights
C7_Witness ==
  /\ pc = "done"
  /\ Restored
  /\ \E n \in Nodes : pre_loss[n] # ZeroWeights /\ weights[n] = pre_loss[n]
  /\ \A n \in Nodes : energy[n] = RECOVERY_ENERGY

\* C2: a node whose score was below BAN_THRESHOLD at the start of this round or of an
\* earlier one is not in the admitted set the round aggregates over.
C2_BannedNeverAdmitted ==
  \A k \in 1..Len(admitted) : admitted[k] \notin banned_seen

\* C3: no frame deposited in the inbox is returned by receive_epiphanies more than once.
C3_FrameReturnedAtMostOnce ==
  \A i \in FrameIds : delivered[i] <= 1

\* the one-to-one rearrangements of the rows supplied to the aggregation
RowOrders == {p \in [Positions(RG_N_NODES) -> Positions(RG_N_NODES)] :
                \A i, j \in Positions(RG_N_NODES) : p[i] = p[j] => i = j}

\* two fractions denote the same number
SameValue(a, b) == a.num * b.den = b.num * a.den

\* C4: the aggregate of the round is the same for every order in which the same
\* {update, reputation} rows are supplied, ties included.
C4_AggregateOrderIndependent ==
  rg_round > 0 =>
    \A p \in RowOrders :
      SameValue(ReputationGatedTrimmedMean([i \in Positions(RG_N_NODES) |-> updates[p[i]]],
                                           N_BYZ,
                                           [i \in Positions(RG_N_NODES) |-> round_scores[p[i]]]).result,
                agg_gated)

\* C8: a node the energy gate refuses has its predictions weighted with the same
\* reputation as a node the gate admits.
C8_RefusalKeepsWeight ==
  \A n \in MMNodes : mm_refused[n] => mm_reputation[n] = FULL_REPUTATION

\* C9: when every scheduled round of the gauntlet has been executed, the total
\* brownout count is 0.
C9_NoBrownoutOverFullRun ==
  (ug_pc = "done" /\ ug_round = UG_MAX_ROUNDS) => brownout_count = 0

\* C10: every bridge message that send_message accepts was sent by a node whose
\* reputation was at least BRIDGE_REPUTATION_THRESHOLD at the time of sending.
C10_AcceptedSenderEligible ==
  last_message.ok
    => last_message.rep >= BRIDGE_REPUTATION_THRESHOLD


\* C11: a zone's count of accepted bridge messages never exceeds BRIDGE_RATE_CAP, is 0
\* when a new round starts, and a message is refused only when its zone is at the cap,
\* which the refusal leaves at the cap (nothing is queued for a later round).
C11_RateCapPerRound ==
  [][/\ \A z \in ZoneNames : message_counts'[z] <= BRIDGE_RATE_CAP
     /\ (pc' = "power" => \A z \in ZoneNames : message_counts'[z] = 0)
     /\ (last_message' # last_message /\ ~last_message'.ok)
          => message_counts'[last_message'.zone] = BRIDGE_RATE_CAP]_vars

\* C11 witness: a zone is at the cap and the last message offered from it was dropped
C11_Witness ==
  /\ last_message # NoCall
  /\ ~last_message.ok
  /\ message_counts[last_message.zone] = BRIDGE_RATE_CAP

\* C12: a node is detected (banned by the auditor) exactly when it has accumulated
\* DETECTION_THRESHOLD audit failures, and once detected it stays detected in every
\* later round.
C12_AuditBanPermanent ==
  [][/\ \A n \in CCNodes : detected'[n] <=> audit_failures'[n] >= DETECTION_THRESHOLD
     /\ \A n \in CCNodes : detected[n] => detected'[n]]_vars

\* C12 witness: a node detected in an earlier round is still detected, and is sampled
\* again, in the round about to be audited
C12_Witness ==
  /\ cc_round < NUM_ROUNDS
  /\ \E n \in SelectAuditTargets(cc_round) :
       detected[n] /\ detection_round[n] < cc_round

\* C13: at the end of round NUM_ROUNDS every cartel node has been detected.
C13_AllCartelDetected ==
  cc_round = NUM_ROUNDS => \A n \in CCNodes : IsCartel(n) => detected[n]

\* C13 witness: the run is over and the last cartel node was caught late in it
C13_Witness ==
  /\ cc_round = NUM_ROUNDS
  /\ audit_result.audits = NumAudits
  /\ \E n \in CCNodes : IsCartel(n) /\ detection_round[n] > NUM_ROUNDS \div 2
  /\ \A n \in CCNodes : ~IsCartel(n) => ~detected[n]


\* C14: a node that has met the cure threshold and propagated its update (it is in
\* infected_nodes) propagates in no later round.
C14_CuredStopsAmplifying ==
  [][\A n \in VSNodes : n \in infected_nodes => n \notin fast_updates']_vars

\* C15 in simulate_v20_viral: a node's update is propagated virally in a round only if
\* its residual_error is below CURE_RESIDUAL_THRESHOLD, its accuracy_delta is above
\* CURE_ACCURACY_MIN_DELTA and its energy before the propagation passes the energy gate.
ViralOnlyIfCureAndEnergy ==
  [][\A n \in fast_updates' :
       /\ vs_residual_error'[n] < CURE_RESIDUAL_THRESHOLD
       /\ vs_accuracy_delta'[n] > CURE_ACCURACY_MIN_DELTA
       /\ vs_energy[n] * 100 >= ENERGY_RESERVE_THRESHOLD * BATTERY_CAPACITY_J]_vars

\* C15: in a gossip step the acting node infects its peer only if the residual_error of
\* the step is below CURE_RESIDUAL_THRESHOLD, its accuracy_delta is above
\* CURE_ACCURACY_MIN_DELTA and the acting node's energy passes the energy gate.
C15_InfectsOnlyIfCureAndEnergy ==
  [][(uv_pc = "node" /\ uv_last'.infected) =>
       /\ uv_last'.residual_error < CURE_RESIDUAL_THRESHOLD
       /\ uv_last'.accuracy_delta > CURE_ACCURACY_MIN_DELTA
       /\ uv_energy_pool[uv_idx] >= 100]_vars

\* C16: in the step of the acting node of a gossip round no field of any other node
\* (reputation, error, viral strain, cure counter, energy) is changed.
C16_OnlyActingNodeWritten ==
  [][uv_pc = "node" =>
       \A n \in UVNodes \ {uv_idx} :
         /\ uv_reputation'[n] = uv_reputation[n]
         /\ uv_error'[n] = uv_error[n]
         /\ viral_strain'[n] = viral_strain[n]
         /\ cure_counter'[n] = cure_counter[n]
         /\ uv_energy_pool'[n] = uv_energy_pool[n]]_vars

\* the admitted rows of the recorded call: their updates and their reputations
CallUpdates == [k \in 1..Len(ag_call.admitted) |-> ag_call.updates[ag_call.admitted[k]]]
CallReps == [k \in 1..Len(ag_call.admitted) |-> ag_call.reps[ag_call.admitted[k]]]

\* the recorded result is the reputation-weighted average of the admitted rows at the
\* positions pos, whose reputations sum to more than zero
IsWeightedAverageOf(pos) ==
  LET total_w == SumSeq([k \in 1..Len(pos) |-> CallReps[pos[k]]])
      weighted == SumSeq([k \in 1..Len(pos) |-> CallUpdates[pos[k]] * CallReps[pos[k]]])
  IN /\ total_w > 0
     /\ ag_call.result.num * total_w = weighted * ag_call.result.den

\* the recorded result is the plain mean of the admitted rows at the positions pos
IsPlainMeanOf(pos) ==
  ag_call.result.num * Len(pos)
    = SumSeq([k \in 1..Len(pos) |-> CallUpdates[pos[k]]]) * ag_call.result.den

\* the claimed number of values discarded at each end
ClaimedF == Min2(ag_call.f, (Len(ag_call.admitted) - 1) \div 2)

\* exactly ClaimedF lowest and ClaimedF highest admitted values are missing from kept,
\* and at least one value is kept
TrimsClaimedF ==
  LET K == SeqRange(ag_call.kept)
      D == Positions(Len(ag_call.admitted)) \ K
  IN /\ Len(ag_call.kept) = Len(ag_call.admitted) - 2 * ClaimedF
     /\ Len(ag_call.kept) >= 1
     /\ Cardinality(K) = Len(ag_call.kept)
     /\ \E Lo \in SUBSET D :
          /\ Cardinality(Lo) = ClaimedF
          /\ Cardinality(D \ Lo) = ClaimedF
          /\ \A l \in Lo : \A k \in K : CallUpdates[l] <= CallUpdates[k]
          /\ \A h \in D \ Lo : \A k \in K : CallUpdates[h] >= CallUpdates[k]

\* C17: a call whose admitted set has fewer than 2f+1 members returns the
\* reputation-weighted mean of all the admitted updates, none of them trimmed (their
\* plain mean being accepted when all their reputations are zero).
C17_SmallSetUntrimmedWeightedMean ==
  (ag_call # NoAggregate /\ Len(ag_call.admitted) < 2 * ag_call.f + 1) =>
    LET all == AscSeq(Positions(Len(ag_call.admitted)))
    IN /\ Len(ag_call.kept) = Len(ag_call.admitted)
       /\ \/ IsWeightedAverageOf(all)
          \/ (\A k \in SeqRange(all) : CallReps[k] = 0) /\ IsPlainMeanOf(all)

\* C18 as stated: every call discards exactly f_eff = min(f, (n_admitted - 1) div 2)
\* lowest and f_eff highest values, keeps at least one, and returns the
\* reputation-weighted average of the values it keeps.
C18_TrimsFEffAndWeights ==
  ag_call # NoAggregate => (TrimsClaimedF /\ IsWeightedAverageOf(ag_call.kept))

\* C18 amended: the same, the result being the reputation-weighted average of the kept
\* values when their reputations sum to more than zero and their plain mean when the
\* reputations of the kept values are all zero.
C18_TrimsFEffAndWeightsOrMean ==
  ag_call # NoAggregate =>
    /\ TrimsClaimedF
    /\ \/ IsWeightedAverageOf(ag_call.kept)
       \/ /\ \A k \in SeqRange(ag_call.kept) : CallReps[k] = 0
          /\ IsPlainMeanOf(ag_call.kept)

\* C18 witness: a call with f above f_eff >= 1, in which a strictly lower and a strictly
\* higher value than the kept ones are discarded and the kept reputation is positive
C18_Witness ==
  /\ ag_call # NoAggregate
  /\ ClaimedF >= 1
  /\ ag_call.f > ClaimedF
  /\ \E k \in SeqRange(ag_call.kept) : CallReps[k] > 0
  /\ \E lo, hi \in Positions(Len(ag_call.admitted)) \ SeqRange(ag_call.kept) :
       \A k \in SeqRange(ag_call.kept) :
         CallUpdates[lo] < CallUpdates[k] /\ CallUpdates[k] < CallUpdates[hi]

\* C19: the score of a node is within [0, 1] after every reward, penalize and
\* trim-penalty operation, whatever the amount.
C19_ScoreWithinUnitInterval ==
  0 <= tr_score /\ tr_score <= MAX_SCORE

\* C20: in every reachable state the energy_pool of every node is at least 0 and at
\* most the capacity, through drain, harvest, gate refusal and power failure.
C20_EnergyPoolWithinCapacity ==
  \A n \in UGNodes : 0 <= ug_energy_pool[n] /\ ug_energy_pool[n] <= MAX_ENERGY_POOL

\* C20 witness: the pools were full when the power failed; every pool is empty and every
\* node was refused by the energy gate in the blackout round
C20_Witness ==
  /\ ug_round = UG_BLACKOUT_ROUND + 1
  /\ \A n \in UGNodes : ug_energy_pool[n] = 0
  /\ brownout_count >= UG_N_NODES
  /\ INITIAL_ENERGY_POOL + UG_BLACKOUT_ROUND * (SOLAR_HARVEST - ROUND_CONSUMPTION)
       > MAX_ENERGY_POOL

\* C21: in every call, for every assignment of reputations in [0, 1], the normalized
\* weight influence[i] / sum(influence) of every node is a number and is at most the
\* influence cap.
C21_WeightWithinInfluenceCap ==
  iw_call # NoInfluence =>
    \A i \in 1..Len(iw_call.influence) :
      /\ ~iw_call.nan
      /\ iw_call.influence[i] * 1000000 <= INFLUENCE_CAP * iw_call.total

\* the step stores a snapshot (serialize_world_state reached "self.states[version] = ...")
Stores == ws_saves' = ws_saves + 1

\* C22: after every serialize_world_state and merge_world_states call that stores a
\* state, get_latest_version() returns the key that call stored, and it returns None
\* only when nothing is stored.
C22_LatestIsMostRecentlyStored ==
  [][/\ Stores => GetLatestVersion(ws_states') = ws_last'.version
     /\ GetLatestVersion(ws_states') = NoVersion <=> Keys(ws_states') = {}]_vars

\* C23: every save and merge with a generated version stores under a key that no stored
\* snapshot has, and whose number is above that of every generated key stored before.
C23_GeneratedVersionsIncrease ==
  [][(Stores /\ ws_last'.auto) =>
       /\ ws_states[ws_last'.version] = Absent
       /\ \A v \in Keys(ws_states) \ ExplicitVersions : v.n < ws_last'.version.n]_vars

\* C29: a save whose write fails, or during which the process stops, leaves every
\* version that _load_db could load before the save loadable, with the same snapshot.
C29_FailedSaveKeepsDurableVersions ==
  [][(Stores /\ ws_last'.outcome # "ok") =>
       \A v \in Keys(LoadDb(ws_disk)) : LoadDb(ws_disk')[v] = LoadDb(ws_disk)[v]]_vars

\* the step is a poll: no file was added to the inbox
PollStep == {f.id : f \in inbox'} = {f.id : f \in inbox}

\* C24: a poll returns no frame with a bad header or a truncated payload, and returns
\* every well-formed frame that was in the inbox as a .bin file when it ran.
C24_MalformedDroppedPollContinues ==
  [][PollStep =>
       /\ \A f \in inbox : f.id \in received' => f.kind = "epiphany"
       /\ \A f \in GlobBin(inbox) : f.kind = "epiphany" => f.id \in received']_vars

\* C25: every broadcast_world_state call that returns True leaves exactly one new file
\* world_*.qws, beginning with the header QRES_WORLD_STATE, in quantum_outbox.
C25_BroadcastLeavesOneFrame ==
  [][(bc_calls' = bc_calls + 1 /\ bc_last'.returned) =>
       \E f \in quantum_outbox' \ quantum_outbox :
         /\ quantum_outbox' = quantum_outbox \cup {f}
         /\ f.stem = "world_" /\ f.ext = ".qws"
         /\ f.header = "QRES_WORLD_STATE"]_vars

\* C26: for all byte strings current and previous,
\* delta_decompress(delta_compress(current, previous), previous) equals current.
C26_DeltaRoundTrip ==
  dc_pc = "restored" => dc_restored = dc_current

\* the doubled derivative that the update before the last one computed
PreviousDerivative2(h) == h[Len(h) - 1] - h[Len(h) - 3]

\* C27 in RegimeDetector of 05_regime_transitions.py: an update processed in Calm enters
\* PreStorm exactly when its derivative and that of the update before it exceeded θ1,
\* and an update at or below θ1 leaves Calm with prestorm_violations back at 0.
CalmEntersPreStormExactly ==
  [][(current_regime = "Calm" /\ entropy_history' # entropy_history) =>
       /\ current_regime' = "PreStorm"
            <=> /\ Derivative2(entropy_history') > 2 * Theta1Derivative
                /\ PreviousDerivative2(entropy_history') > 2 * Theta1Derivative
       /\ Derivative2(entropy_history') <= 2 * Theta1Derivative
            => (current_regime' = "Calm" /\ prestorm_violations' = 0)]_vars

\* C27: an update processed in Calm enters PreStorm if and only if the derivative
\* exceeded the threshold on that update and on the update before it, and an update at
\* or below the threshold leaves the detector in Calm with the confirmation count at 0.
C27_CalmEntersPreStormAfterTwo ==
  [][(v21_regime = V21_CALM /\ v21_idx' # v21_idx) =>
       /\ v21_regime' = V21_PRESTORM
            <=> /\ v21_derivative' > 3 * DERIVATIVE_THRESHOLD
                /\ v21_previous_derivative' > 3 * DERIVATIVE_THRESHOLD
       /\ v21_derivative' <= 3 * DERIVATIVE_THRESHOLD
            => (v21_regime' = V21_CALM /\ transition_streak' = 0)]_vars

\* the distinct trusted nodes whose Storm vote was appended to the buffer by this step
SameRoundStormVoters ==
  {vote_buffer'[i].node : i \in {j \in (Len(vote_buffer) + 1)..Len(vote_buffer') :
      /\ vote_buffer'[j].regime = "Storm"
      /\ vote_buffer'[j].reputation >= MIN_BRIDGE_REPUTATION}}

\* C28: the round's vote authorises Storm only if at least STORM_QUORUM distinct trusted
\* nodes (reputation at least MIN_BRIDGE_REPUTATION) voted Storm in that round.
C28_StormNeedsSameRoundQuorum ==
  [][(uv_pc = "vote" /\ uv_pc' = "node" /\ uv_current_regime' = "Storm") =>
       Cardinality(SameRoundStormVoters) >= STORM_QUORUM]_vars

\* an aggregation stores its round number in this step
Aggregates ==
  \E t \in HVThreads : hv_threads[t].pc = "write_round" /\ hv_threads'[t].pc = "clear"

\* no request is being handled
HiveQuiescent == \A t \in HVThreads : hv_threads[t].pc = "idle"

\* C30: for every interleaving of contribute and reset requests, no contribution is
\* added to more than one aggregation, every accepted contribution has been added to
\* one when no request is being handled, and every aggregation raises the round
\* number by exactly 1.
C30_EachContributionOnceRoundByOne ==
  [][/\ \A c \in Contributions : hv_included'[c] <= 1
     /\ HiveQuiescent' => \A c \in 1..hv_accepted' : hv_included'[c] = 1
     /\ Aggregates => hv_round' = hv_round + 1]_vars

====
